---- MODULE Spec2Model ----
(***************************************************************************)
(* Model of the tss-esapi safety layer: the command Context (session       *)
(* registry, handle manager, scoped execution, teardown) of                *)
(* tss-esapi/src/context.rs and the descriptor builders of                 *)
(* src/utils/mod.rs.                                                       *)
(***************************************************************************)
EXTENDS Integers, Sequences, FiniteSets, TLC

\* ------------------------------------------------------------------------
\* Bounds
\* ------------------------------------------------------------------------
\* number of distinct ESYS_TR handles the teardown model distinguishes
NumHandles == 3
\* nesting depth of execute_with_sessions calls
MaxDepth == 2
\* handles used by the scoped-cleanup combinators (at most NumHandles)
MaxObj == 2
\* nesting depth of the scoped-cleanup combinators
MaxNest == 1
\* release commands issued in one run of the scoped-cleanup combinators
MaxCmds == 2

None == "None"

\* Option<Session>::None, and the ESYS_TR of "no handle"
NoSession == 0
\* Session::Password
Password == -1

Handles == 1..NumHandles

\* dispositions of a registered handle; "Absent" = not in the registry
Dispositions == {"MustFlush", "MustClose", "Permanent"}

VARIABLES
    esys_context,   \* Context.esys_context : "Some" | "None" (taken and finalized)
    tcti_context,   \* Context.tcti_context : "Some" | "None" (taken and finalized)
    sessions,       \* Context.sessions : triple of optional sessions
    open_handles,   \* Context.handle_manager : handle -> disposition | "Absent"
    log,            \* release commands issued to the device, in order
    drop_mark,      \* length of log when Drop::drop started, -1 before teardown
    leak_reported,  \* Drop::drop logged "Not all handles have had their resources ..."
    stack,          \* scoped calls whose closure f is running, innermost last
    ret             \* what the scoped call that returned last gave its caller

ctxVars == <<esys_context, tcti_context, sessions, open_handles, log, drop_mark,
             leak_reported, stack, ret>>

VARIABLES
    pub,            \* the Tpm2BPublicBuilder being filled in
    pub_result      \* what Tpm2BPublicBuilder::build returned, NoResult before

pubVars == <<pub, pub_result>>

VARIABLES
    rsa,            \* the TpmsRsaParmsBuilder being filled in
    rsa_result      \* what TpmsRsaParmsBuilder::build returned, NoResult before

rsaVars == <<rsa, rsa_result>>

VARIABLES
    pcr_builder,    \* the PcrSelectionListBuilder being filled in
    pcr_self,       \* the PcrSelectionList subtract is called on, NoResult before it is built
    pcr_other,      \* the PcrSelectionList given to subtract, NoResult before it is built
    pcr_last,       \* the last subtract: self before the call and what it returned
    pcr_tpml,       \* the TPML_PCR_SELECTION given to try_from
    pcr_decoded,    \* what PcrSelectionList::try_from returned, NoResult before
    pcr_read_ret    \* the last pcr_read: what the device did and what the call returned

pcrVars == <<pcr_builder, pcr_self, pcr_other, pcr_last, pcr_tpml, pcr_decoded,
             pcr_read_ret>>

VARIABLES
    sels_builder,   \* the PcrSelectionsBuilder being filled in
    sels,           \* the PcrSelections it built, NoResult before
    sels_tpml,      \* the TPML_PCR_SELECTION made from sels or received, NoResult before
    sels_decoded    \* what PcrSelections::try_from(sels_tpml) gave, NoResult before

selVars == <<sels_builder, sels, sels_tpml, sels_decoded>>

nonCtxVars == <<pubVars, rsaVars, pcrVars, selVars>>
nonPubVars == <<ctxVars, rsaVars, pcrVars, selVars>>
nonRsaVars == <<ctxVars, pubVars, pcrVars, selVars>>
nonPcrVars == <<ctxVars, pubVars, rsaVars, selVars>>
nonSelVars == <<ctxVars, pubVars, rsaVars, pcrVars>>

vars == <<ctxVars, pubVars, rsaVars, pcrVars, selVars>>

\* ------------------------------------------------------------------------
\* Handle manager
\* ------------------------------------------------------------------------
\* HandleManager::new
HandleManagerNew == [h \in Handles |-> "Absent"]

\* register(handle, disposition)
add_handle(reg, h, d) == [reg EXCEPT ![h] = d]

\* the outstanding handles of one disposition, in the registry's iteration
\* order ord (a permutation of the handles)
RECURSIVE FilterOrder(_, _, _)
FilterOrder(reg, ord, d) ==
    IF ord = <<>> THEN <<>>
    ELSE IF reg[Head(ord)] = d
         THEN <<Head(ord)>> \o FilterOrder(reg, Tail(ord), d)
         ELSE FilterOrder(reg, Tail(ord), d)

handles_to_flush(reg, ord) == FilterOrder(reg, ord, "MustFlush")

handles_to_close(reg, ord) == FilterOrder(reg, ord, "MustClose")

has_open_handles(reg) == \E h \in Handles : reg[h] \in {"MustFlush", "MustClose"}

\* a handle whose flush command succeeded is no longer outstanding
set_as_flushed(reg, h) ==
    IF h \in Handles /\ reg[h] = "MustFlush" THEN [reg EXCEPT ![h] = "Absent"] ELSE reg

\* a handle whose close command succeeded is no longer outstanding
set_as_closed(reg, h) ==
    IF h \in Handles /\ reg[h] = "MustClose" THEN [reg EXCEPT ![h] = "Absent"] ELSE reg

\* ------------------------------------------------------------------------
\* Device commands: the command is issued (one log entry) and the registry is
\* updated only when the device reports success.
\* ------------------------------------------------------------------------
Cmd(c, h, ok) == [cmd |-> c, handle |-> h, ok |-> ok]

flush_context(reg, h, ok) ==
    [reg |-> IF ok THEN set_as_flushed(reg, h) ELSE reg,
     log |-> <<Cmd("flush", h, ok)>>,
     ok  |-> ok]

tr_close(reg, h, ok) ==
    [reg |-> IF ok THEN set_as_closed(reg, h) ELSE reg,
     log |-> <<Cmd("close", h, ok)>>,
     ok  |-> ok]

Release(c, reg, h, ok) == IF c = "flush" THEN flush_context(reg, h, ok) ELSE tr_close(reg, h, ok)

\* permutations of the handles: the iteration orders of the registry's map
Orders == {o \in [1..NumHandles -> Handles] : \A i, j \in 1..NumHandles : i # j => o[i] # o[j]}

\* ------------------------------------------------------------------------
\* Drop for Context
\* ------------------------------------------------------------------------
\* variant: the loop returns at the first failing command (`release(handle)?`)
RECURSIVE ReleaseLoop_AbortOnError(_, _, _, _)
ReleaseLoop_AbortOnError(c, reg, hs, outcome) ==
    IF hs = <<>> THEN [reg |-> reg, log |-> <<>>]
    ELSE LET r == Release(c, reg, Head(hs), outcome[Head(hs)])
         IN  IF ~r.ok THEN [reg |-> r.reg, log |-> r.log]
             ELSE LET rest == ReleaseLoop_AbortOnError(c, r.reg, Tail(hs), outcome)
                  IN  [reg |-> rest.reg, log |-> r.log \o rest.log]

\* variant: a failing command is issued a second time
RECURSIVE ReleaseLoop_RetryOnce(_, _, _, _)
ReleaseLoop_RetryOnce(c, reg, hs, outcome) ==
    IF hs = <<>> THEN [reg |-> reg, log |-> <<>>]
    ELSE LET r     == Release(c, reg, Head(hs), outcome[Head(hs)])
             again == IF r.ok THEN <<>> ELSE r.log
             rest  == ReleaseLoop_RetryOnce(c, r.reg, Tail(hs), outcome)
         IN  [reg |-> rest.reg, log |-> r.log \o again \o rest.log]

\* `for handle in ... { if let Err(e) = release(handle) { error!(..) } }`:
\* every handle of the list gets its command, whatever the earlier outcomes
RECURSIVE ReleaseLoop(_, _, _, _)
ReleaseLoop(c, reg, hs, outcome) ==
    IF hs = <<>> THEN [reg |-> reg, log |-> <<>>]
    ELSE LET r    == Release(c, reg, Head(hs), outcome[Head(hs)])
             rest == ReleaseLoop(c, r.reg, Tail(hs), outcome)
         IN  [reg |-> rest.reg, log |-> r.log \o rest.log]

\* variant: the close loop runs before the flush loop
DropBody_CloseFirst(reg, ord, outcome) ==
    LET cl == ReleaseLoop("close", reg, handles_to_close(reg, ord), outcome)
        fl == ReleaseLoop("flush", cl.reg, handles_to_flush(cl.reg, ord), outcome)
    IN  [reg |-> fl.reg, log |-> cl.log \o fl.log]

\* variant: the close loop is missing
DropBody_FlushOnly(reg, ord, outcome) ==
    LET fl == ReleaseLoop("flush", reg, handles_to_flush(reg, ord), outcome)
    IN  [reg |-> fl.reg, log |-> fl.log]

\* the two loops of drop: flush handles, then close handles
DropBody(reg, ord, outcome) ==
    LET fl == ReleaseLoop("flush", reg, handles_to_flush(reg, ord), outcome)
        cl == ReleaseLoop("close", fl.reg, handles_to_close(fl.reg, ord), outcome)
    IN  [reg |-> cl.reg, log |-> fl.log \o cl.log]

Drop ==
    /\ esys_context = "Some"
    /\ stack = <<>>
    /\ \E ord \in Orders, outcome \in [Handles -> BOOLEAN] :
          LET d == DropBody(open_handles, ord, outcome)
          IN  /\ open_handles' = d.reg
              /\ log' = log \o d.log
              /\ leak_reported' = has_open_handles(d.reg)
    /\ drop_mark' = Len(log)
    /\ esys_context' = None
    /\ tcti_context' = None
    /\ UNCHANGED <<sessions, stack, ret>>
    /\ UNCHANGED nonCtxVars

\* ------------------------------------------------------------------------
\* Client operations on a live context
\* ------------------------------------------------------------------------
\* a command returned a handle, registered with its disposition
AddHandle(h, d) ==
    /\ esys_context = "Some"
    /\ open_handles[h] = "Absent"
    /\ open_handles' = add_handle(open_handles, h, d)
    /\ UNCHANGED <<esys_context, tcti_context, sessions, log, drop_mark, leak_reported,
                   stack, ret>>
    /\ UNCHANGED nonCtxVars

FlushContext(h, ok) ==
    /\ esys_context = "Some"
    /\ LET r == flush_context(open_handles, h, ok)
       IN  open_handles' = r.reg /\ log' = log \o r.log
    /\ UNCHANGED <<esys_context, tcti_context, sessions, drop_mark, leak_reported,
                   stack, ret>>
    /\ UNCHANGED nonCtxVars

\* no scoped call has returned yet
NoRet == [op |-> None, handle |-> NoSession, fres |-> None, flush |-> None, result |-> None]

\* ------------------------------------------------------------------------
\* Session registry and scoped execution
\* ------------------------------------------------------------------------
\* the session triples clients install
SessionInputs ==
    {<<NoSession, NoSession, NoSession>>, <<Password, NoSession, NoSession>>,
     <<1, Password, NoSession>>, <<2, 1, Password>>}

\* the sessions a client passes to execute_with_session
SessionOptions == {NoSession, Password, 1}

Top == stack[Len(stack)]

Pop == SubSeq(stack, 1, Len(stack) - 1)

Frame(kind, oldses, entry, requested, h) ==
    [kind |-> kind, oldses |-> oldses, entry |-> entry, requested |-> requested,
     handle |-> h]

\* set_sessions
SetSessions(session_handles) ==
    /\ esys_context = "Some"
    /\ sessions' = session_handles
    /\ UNCHANGED <<esys_context, tcti_context, open_handles, log, drop_mark,
                   leak_reported, stack, ret>>
    /\ UNCHANGED nonCtxVars

\* clear_sessions
ClearSessions ==
    /\ esys_context = "Some"
    /\ sessions' = <<NoSession, NoSession, NoSession>>
    /\ UNCHANGED <<esys_context, tcti_context, open_handles, log, drop_mark,
                   leak_reported, stack, ret>>
    /\ UNCHANGED nonCtxVars

\* execute_with_sessions up to the call of f: `let oldses = self.sessions();
\* self.set_sessions(session_handles);`
execute_with_sessions_begin(cur, session_handles) ==
    [oldses |-> cur, sessions |-> session_handles]

\* variant: a failure of f returns before the sessions are set back
execute_with_sessions_end_SkipOnErr(cur, oldses, fres) ==
    IF fres = "Err" THEN cur ELSE oldses

\* execute_with_sessions after f returned: `self.set_sessions(oldses);`
execute_with_sessions_end(cur, oldses, fres) == oldses

\* execute_with_sessions(session_handles, f) calls f
ExecuteWithSessions(session_handles) ==
    /\ esys_context = "Some"
    /\ Len(stack) < MaxDepth
    /\ LET b == execute_with_sessions_begin(sessions, session_handles)
       IN  /\ sessions' = b.sessions
           /\ stack' = Append(stack, Frame("sessions", b.oldses, sessions,
                                           session_handles, NoSession))
    /\ UNCHANGED <<esys_context, tcti_context, open_handles, log, drop_mark,
                   leak_reported, ret>>
    /\ UNCHANGED nonCtxVars

\* execute_with_session(session_handle, f)
ExecuteWithSession(session_handle) ==
    ExecuteWithSessions(<<session_handle, NoSession, NoSession>>)

\* execute_without_session(f)
ExecuteWithoutSession ==
    ExecuteWithSessions(<<NoSession, NoSession, NoSession>>)

\* f returned fres to execute_with_sessions, which returns it to its caller
ExecuteWithSessionsReturn(fres) ==
    /\ stack # <<>>
    /\ Top.kind = "sessions"
    /\ sessions' = execute_with_sessions_end(sessions, Top.oldses, fres)
    /\ stack' = Pop
    /\ ret' = [op |-> "sessions", handle |-> NoSession, fres |-> fres, flush |-> None,
               result |-> fres]
    /\ UNCHANGED <<esys_context, tcti_context, open_handles, log, drop_mark,
                   leak_reported>>
    /\ UNCHANGED nonCtxVars

\* ------------------------------------------------------------------------
\* Scoped cleanup: execute_with_nullauth_session, execute_with_temporary_object
\* ------------------------------------------------------------------------
ObjHandles == 1..MaxObj

FlushRes(ok) == IF ok THEN "Ok" ELSE "Err"

\* what start_auth_session and tr_sess_set_attributes can do to the call:
\* "start_err"  start_auth_session returned Err
\* "start_none" start_auth_session returned Ok(None)
\* "attr_err"   the session was opened, tr_sess_set_attributes returned Err
\* "ok"         both succeeded
NullauthOutcomes == {"start_err", "start_none", "attr_err", "ok"}

\* execute_with_nullauth_session up to the call of f
ExecuteWithNullauthSession(h, outcome) ==
    /\ esys_context = "Some"
    /\ Len(stack) < MaxNest
    /\ Len(log) + Len(stack) < MaxCmds
    /\ IF outcome \in {"start_err", "start_none"}
       THEN /\ ret' = [op |-> "nullauth", handle |-> NoSession, fres |-> None,
                       flush |-> None, result |-> "Err"]
            /\ UNCHANGED <<open_handles, sessions, stack>>
       ELSE /\ open_handles[h] = "Absent"
            /\ open_handles' = add_handle(open_handles, h, "MustFlush")
            /\ IF outcome = "attr_err"
               THEN /\ ret' = [op |-> "nullauth", handle |-> h, fres |-> None,
                               flush |-> None, result |-> "Err"]
                    /\ UNCHANGED <<sessions, stack>>
               ELSE LET R == <<h, NoSession, NoSession>>
                        b == execute_with_sessions_begin(sessions, R)
                    IN  /\ sessions' = b.sessions
                        /\ stack' = Append(stack, Frame("nullauth", b.oldses, sessions, R, h))
                        /\ UNCHANGED ret
    /\ UNCHANGED <<esys_context, tcti_context, log, drop_mark, leak_reported>>
    /\ UNCHANGED nonCtxVars

\* `let res = f(..); self.flush_context(handle)?; res`: the flush is issued
\* whatever res is; a failing flush returns its own error
scoped_flush(reg, h, fres, ok) ==
    LET r == flush_context(reg, h, ok)
    IN  [reg |-> r.reg, log |-> r.log, flush |-> FlushRes(ok),
         result |-> IF ok THEN fres ELSE "FlushErr"]

\* the handle execute_with_nullauth_session flushes: `session.handle().into()`
nullauth_flush_handle(session, restored) == session

\* f returned fres to execute_with_nullauth_session
ExecuteWithNullauthSessionReturn(fres, ok) ==
    /\ stack # <<>>
    /\ Top.kind = "nullauth"
    /\ sessions' = execute_with_sessions_end(sessions, Top.oldses, fres)
    /\ stack' = Pop
    /\ LET e == scoped_flush(open_handles,
                             nullauth_flush_handle(Top.handle, sessions'), fres, ok)
       IN  /\ open_handles' = e.reg
           /\ log' = log \o e.log
           /\ ret' = [op |-> "nullauth", handle |-> Top.handle, fres |-> fres,
                      flush |-> e.flush, result |-> e.result]
    /\ UNCHANGED <<esys_context, tcti_context, drop_mark, leak_reported>>
    /\ UNCHANGED nonCtxVars

\* execute_with_temporary_object(object, f) calls f
ExecuteWithTemporaryObject(object) ==
    /\ esys_context = "Some"
    /\ Len(stack) < MaxNest
    /\ Len(log) + Len(stack) < MaxCmds
    /\ stack' = Append(stack, Frame("tempobj", sessions, sessions, sessions, object))
    /\ UNCHANGED <<esys_context, tcti_context, sessions, open_handles, log, drop_mark,
                   leak_reported, ret>>
    /\ UNCHANGED nonCtxVars

\* f returned fres to execute_with_temporary_object
ExecuteWithTemporaryObjectReturn(fres, ok) ==
    /\ stack # <<>>
    /\ Top.kind = "tempobj"
    /\ stack' = Pop
    /\ LET e == scoped_flush(open_handles, Top.handle, fres, ok)
       IN  /\ open_handles' = e.reg
           /\ log' = log \o e.log
           /\ ret' = [op |-> "tempobj", handle |-> Top.handle, fres |-> fres,
                      flush |-> e.flush, result |-> e.result]
    /\ UNCHANGED <<esys_context, tcti_context, sessions, drop_mark, leak_reported>>
    /\ UNCHANGED nonCtxVars

\* ------------------------------------------------------------------------
\* Results of the builders
\* ------------------------------------------------------------------------
NoResult == [tag |-> "None"]

Ok(v) == [tag |-> "Ok", value |-> v]

\* Err(Error::local_error(kind))
Err(kind) == [tag |-> "Err", kind |-> kind]

\* Option::None of a builder field
Unset == [variant |-> "None"]

\* ------------------------------------------------------------------------
\* TpmsRsaParmsBuilder
\* ------------------------------------------------------------------------
HashAlgs == {"SHA1", "SHA256"}

\* AsymSchemeUnion
AsymSchemeVariants ==
    {"ECDH", "ECMQV", "RSASSA", "RSAPSS", "ECDSA", "ECDAA", "SM2", "ECSchnorr",
     "RSAES", "RSAOAEP", "AnySig"}

AsymScheme(v, hash) == [variant |-> v, hash |-> hash]

\* the schemes given to the builder: every variant with SHA256, and the two
\* RSA signature schemes and AnySig with every hash
AsymSchemes ==
    {AsymScheme(v, "SHA256") : v \in AsymSchemeVariants}
      \cup {AsymScheme(v, h) : v \in {"RSASSA", "RSAPSS", "AnySig"}, h \in HashAlgs}
      \cup {AsymScheme("AnySig", "NULL")}

\* AsymSchemeUnion::scheme_id
scheme_id(s) ==
    CASE s.variant = "ECDH"      -> "TPM2_ALG_ECDH"
      [] s.variant = "ECMQV"     -> "TPM2_ALG_ECMQV"
      [] s.variant = "RSASSA"    -> "TPM2_ALG_RSASSA"
      [] s.variant = "RSAPSS"    -> "TPM2_ALG_RSAPSS"
      [] s.variant = "ECDSA"     -> "TPM2_ALG_ECDSA"
      [] s.variant = "ECDAA"     -> "TPM2_ALG_ECDAA"
      [] s.variant = "SM2"       -> "TPM2_ALG_SM2"
      [] s.variant = "ECSchnorr" -> "TPM2_ALG_ECSCHNORR"
      [] s.variant = "RSAES"     -> "TPM2_ALG_RSAES"
      [] s.variant = "RSAOAEP"   -> "TPM2_ALG_OAEP"
      [] s.variant = "AnySig"    -> "TPM2_ALG_NULL"

\* AsymSchemeUnion::get_rsa_scheme: the TPMT_RSA_SCHEME of a scheme
get_rsa_scheme(s) ==
    [scheme  |-> scheme_id(s),
     details |-> IF s.variant = "RSAES" THEN [member |-> "rsaes"]
                 ELSE [member |-> s.variant, hashAlg |-> s.hash]]

\* TPMT_SYM_DEF_OBJECT values given to the builder
SymDefObject(alg, bits, mode) == [algorithm |-> alg, keyBits |-> bits, mode |-> mode]

SymDefObjects ==
    {SymDefObject("TPM2_ALG_AES", 128, "TPM2_ALG_CFB"),
     SymDefObject("TPM2_ALG_AES", 256, "TPM2_ALG_CFB")}

\* `Default::default()` with `algorithm = TPM2_ALG_NULL`
NullSymDefObject == SymDefObject("TPM2_ALG_NULL", 0, "0x0000")

\* key widths given to the builder: the supported sizes and two others
KeyBitsInputs == {0, 1024, 2048, 3072, 4096, 4097}

ExponentInputs == {0, 65537}

\* #[derive(Default)] for TpmsRsaParmsBuilder
RsaParmsBuilderDefault ==
    [symmetric |-> Unset, scheme |-> Unset, key_bits |-> 0, exponent |-> 0,
     for_signing |-> FALSE, for_decryption |-> FALSE, restricted |-> FALSE]

new_restricted_decryption_key(symmetric, key_bits, exponent) ==
    [symmetric |-> symmetric, scheme |-> AsymScheme("AnySig", "NULL"),
     key_bits |-> key_bits, exponent |-> exponent,
     for_signing |-> FALSE, for_decryption |-> TRUE, restricted |-> TRUE]

new_unrestricted_signing_key(scheme, key_bits, exponent) ==
    [symmetric |-> Unset, scheme |-> scheme,
     key_bits |-> key_bits, exponent |-> exponent,
     for_signing |-> TRUE, for_decryption |-> FALSE, restricted |-> FALSE]

\* Supported sizes for RSA key modulus
RSA_KEY_SIZES == {1024, 2048, 3072, 4096}

\* variant: a restricted signing key also takes the null scheme, as an
\* unrestricted one does
SchemeRejected_RestrictedSignNull(b, id) ==
    IF b.restricted
    THEN \/ (b.for_signing /\ id # "TPM2_ALG_RSAPSS" /\ id # "TPM2_ALG_RSASSA"
                /\ id # "TPM2_ALG_NULL")
         \/ (b.for_decryption /\ id # "TPM2_ALG_NULL")
    ELSE \/ (b.for_decryption /\ b.for_signing /\ id # "TPM2_ALG_NULL")
         \/ (b.for_signing /\ id # "TPM2_ALG_RSAPSS" /\ id # "TPM2_ALG_RSASSA"
                /\ id # "TPM2_ALG_NULL")
         \/ (b.for_decryption /\ id # "TPM2_ALG_RSAES" /\ id # "TPM2_ALG_OAEP"
                /\ id # "TPM2_ALG_NULL")

\* variant: an unrestricted decryption key does not take the null scheme
SchemeRejected_DecryptNoNull(b, id) ==
    IF b.restricted
    THEN \/ (b.for_signing /\ id # "TPM2_ALG_RSAPSS" /\ id # "TPM2_ALG_RSASSA")
         \/ (b.for_decryption /\ id # "TPM2_ALG_NULL")
    ELSE \/ (b.for_decryption /\ b.for_signing /\ id # "TPM2_ALG_NULL")
         \/ (b.for_signing /\ id # "TPM2_ALG_RSAPSS" /\ id # "TPM2_ALG_RSASSA"
                /\ id # "TPM2_ALG_NULL")
         \/ (b.for_decryption /\ id # "TPM2_ALG_RSAES" /\ id # "TPM2_ALG_OAEP")

\* the scheme-identity checks of build, lines 230-260: TRUE when one of them
\* returns InconsistentParams
SchemeRejected(b, id) ==
    IF b.restricted
    THEN \/ (b.for_signing /\ id # "TPM2_ALG_RSAPSS" /\ id # "TPM2_ALG_RSASSA")
         \/ (b.for_decryption /\ id # "TPM2_ALG_NULL")
    ELSE \/ (b.for_decryption /\ b.for_signing /\ id # "TPM2_ALG_NULL")
         \/ (b.for_signing /\ id # "TPM2_ALG_RSAPSS" /\ id # "TPM2_ALG_RSASSA"
                /\ id # "TPM2_ALG_NULL")
         \/ (b.for_decryption /\ id # "TPM2_ALG_RSAES" /\ id # "TPM2_ALG_OAEP"
                /\ id # "TPM2_ALG_NULL")

\* variant: the missing scheme is reported before the symmetric cipher is
\* looked at
RsaParmsBuild_SchemeFirst(b) ==
    IF b.scheme = Unset THEN Err("ParamsMissing")
    ELSE IF b.restricted /\ b.for_decryption /\ b.symmetric = Unset
    THEN Err("ParamsMissing")
    ELSE IF ~(b.restricted /\ b.for_decryption) /\ b.symmetric # Unset
    THEN Err("InconsistentParams")
    ELSE LET symmetric == IF b.symmetric = Unset THEN NullSymDefObject ELSE b.symmetric
             scheme    == get_rsa_scheme(b.scheme)
         IN  IF SchemeRejected(b, scheme.scheme) THEN Err("InconsistentParams")
             ELSE Ok([symmetric |-> symmetric, scheme |-> scheme,
                      keyBits |-> b.key_bits, exponent |-> b.exponent])

\* variant: the scheme is checked against the flags before the symmetric
\* cipher is looked at
RsaParmsBuild_CompatFirst(b) ==
    IF b.scheme # Unset /\ SchemeRejected(b, get_rsa_scheme(b.scheme).scheme)
    THEN Err("InconsistentParams")
    ELSE IF b.restricted /\ b.for_decryption /\ b.symmetric = Unset
    THEN Err("ParamsMissing")
    ELSE IF ~(b.restricted /\ b.for_decryption) /\ b.symmetric # Unset
    THEN Err("InconsistentParams")
    ELSE IF b.scheme = Unset THEN Err("ParamsMissing")
    ELSE Ok([symmetric |-> IF b.symmetric = Unset THEN NullSymDefObject
                           ELSE b.symmetric,
             scheme |-> get_rsa_scheme(b.scheme),
             keyBits |-> b.key_bits, exponent |-> b.exponent])

\* variant: a missing scheme is replaced by the null scheme
RsaParmsBuild_DefaultScheme(b) ==
    IF b.restricted /\ b.for_decryption /\ b.symmetric = Unset
    THEN Err("ParamsMissing")
    ELSE IF ~(b.restricted /\ b.for_decryption) /\ b.symmetric # Unset
    THEN Err("InconsistentParams")
    ELSE LET symmetric == IF b.symmetric = Unset THEN NullSymDefObject ELSE b.symmetric
             scheme    == get_rsa_scheme(IF b.scheme = Unset
                                         THEN AsymScheme("AnySig", "NULL")
                                         ELSE b.scheme)
         IN  IF SchemeRejected(b, scheme.scheme) THEN Err("InconsistentParams")
             ELSE Ok([symmetric |-> symmetric, scheme |-> scheme,
                      keyBits |-> b.key_bits, exponent |-> b.exponent])

\* TpmsRsaParmsBuilder::build
RsaParmsBuild(b) ==
    IF b.restricted /\ b.for_decryption /\ b.symmetric = Unset
    THEN Err("ParamsMissing")
    ELSE IF ~(b.restricted /\ b.for_decryption) /\ b.symmetric # Unset
    THEN Err("InconsistentParams")
    ELSE IF b.scheme = Unset THEN Err("ParamsMissing")
    ELSE LET symmetric == IF b.symmetric = Unset THEN NullSymDefObject ELSE b.symmetric
             scheme    == get_rsa_scheme(b.scheme)
         IN  IF SchemeRejected(b, scheme.scheme) THEN Err("InconsistentParams")
             ELSE Ok([symmetric |-> symmetric, scheme |-> scheme,
                      keyBits |-> b.key_bits, exponent |-> b.exponent])

\* TpmsRsaParmsBuilder::new_restricted_decryption_key
NewRestrictedDecryptionKey(symmetric, key_bits, exponent) ==
    /\ rsa_result = NoResult
    /\ rsa' = new_restricted_decryption_key(symmetric, key_bits, exponent)
    /\ UNCHANGED <<rsa_result, nonRsaVars>>

\* TpmsRsaParmsBuilder::new_unrestricted_signing_key
NewUnrestrictedSigningKey(scheme, key_bits, exponent) ==
    /\ rsa_result = NoResult
    /\ rsa' = new_unrestricted_signing_key(scheme, key_bits, exponent)
    /\ UNCHANGED <<rsa_result, nonRsaVars>>

\* the builder's fields are public: a client sets any of them
RsaSetSymmetric(v) ==
    /\ rsa_result = NoResult
    /\ rsa' = [rsa EXCEPT !.symmetric = v]
    /\ UNCHANGED <<rsa_result, nonRsaVars>>

RsaSetScheme(v) ==
    /\ rsa_result = NoResult
    /\ rsa' = [rsa EXCEPT !.scheme = v]
    /\ UNCHANGED <<rsa_result, nonRsaVars>>

RsaSetKeyBits(v) ==
    /\ rsa_result = NoResult
    /\ rsa' = [rsa EXCEPT !.key_bits = v]
    /\ UNCHANGED <<rsa_result, nonRsaVars>>

RsaSetExponent(v) ==
    /\ rsa_result = NoResult
    /\ rsa' = [rsa EXCEPT !.exponent = v]
    /\ UNCHANGED <<rsa_result, nonRsaVars>>

RsaSetForSigning(v) ==
    /\ rsa_result = NoResult
    /\ rsa' = [rsa EXCEPT !.for_signing = v]
    /\ UNCHANGED <<rsa_result, nonRsaVars>>

RsaSetForDecryption(v) ==
    /\ rsa_result = NoResult
    /\ rsa' = [rsa EXCEPT !.for_decryption = v]
    /\ UNCHANGED <<rsa_result, nonRsaVars>>

RsaSetRestricted(v) ==
    /\ rsa_result = NoResult
    /\ rsa' = [rsa EXCEPT !.restricted = v]
    /\ UNCHANGED <<rsa_result, nonRsaVars>>

\* build(self): the builder is consumed
RsaBuild ==
    /\ rsa_result = NoResult
    /\ rsa_result' = RsaParmsBuild(rsa)
    /\ UNCHANGED <<rsa, nonRsaVars>>

InitRsa ==
    /\ rsa = RsaParmsBuilderDefault
    /\ rsa_result = NoResult

\* ------------------------------------------------------------------------
\* Tpm2BPublicBuilder
\* ------------------------------------------------------------------------
\* TPMI_ALG_PUBLIC values given to with_type
PublicTypes ==
    {"TPM2_ALG_RSA", "TPM2_ALG_ECC", "TPM2_ALG_KEYEDHASH", "TPM2_ALG_SYMCIPHER",
     "TPM2_ALG_NULL"}

NameAlgs == {"TPM2_ALG_NULL", "TPM2_ALG_SHA1", "TPM2_ALG_SHA256"}

\* ObjectAttributes::new_fixed_parent_key: fixed_tpm, fixed_parent,
\* sensitive_data_origin, user_with_auth, decrypt, restricted
new_fixed_parent_key == 2^1 + 2^4 + 2^5 + 2^6 + 2^17 + 2^16

\* ObjectAttributes::new_fixed_signing_key: fixed_tpm, fixed_parent,
\* sensitive_data_origin, user_with_auth, sign_encrypt
new_fixed_signing_key == 2^1 + 2^4 + 2^5 + 2^6 + 2^18

ObjectAttributesInputs == {0, new_fixed_parent_key, new_fixed_signing_key}

\* TPM2B_DIGEST, its buffer cut to the bytes in use
Digest(size, buffer) == [size |-> size, buffer |-> buffer]

DigestDefault == Digest(0, <<>>)

AuthPolicyInputs == {DigestDefault, Digest(2, <<17, 34>>)}

\* TPM2B_PUBLIC_KEY_RSA, its buffer cut to the bytes in use
RsaKey(size, buffer) == [size |-> size, buffer |-> buffer]

\* the rsa member of a zeroed TPMU_PUBLIC_ID
RsaKeyDefault == RsaKey(0, <<>>)

\* TPMS_RSA_PARMS values: what the RSA parameter builder produces for a
\* restricted decryption key and for an unrestricted signing key
RsaParmsInputs ==
    {RsaParmsBuild(new_restricted_decryption_key(
         SymDefObject("TPM2_ALG_AES", 128, "TPM2_ALG_CFB"), 2048, 0)).value,
     RsaParmsBuild(new_unrestricted_signing_key(
         AsymScheme("RSASSA", "SHA256"), 2048, 0)).value}

\* PublicParmsUnion
PublicParms(variant, parms) == [variant |-> variant, parms |-> parms]

PublicParmsInputs ==
    {PublicParms("RsaDetail", p) : p \in RsaParmsInputs}
      \cup {PublicParms(v, "opaque") :
               v \in {"KeyedHashDetail", "SymDetail", "EccDetail", "AsymDetail"}}

\* PublicIdUnion
PublicId(variant, id) == [variant |-> variant, id |-> id]

PublicIdInputs ==
    {PublicId("Rsa", k) : k \in {RsaKeyDefault, RsaKey(2, <<171, 205>>)}}
      \cup {PublicId(v, "opaque") : v \in {"KeyedHash", "Sym", "Ecc"}}

\* Tpm2BPublicBuilder::new
Tpm2BPublicBuilderNew ==
    [type_ |-> None, name_alg |-> "TPM2_ALG_NULL", object_attributes |-> 0,
     auth_policy |-> DigestDefault, parameters |-> Unset, unique |-> Unset]

\* variant: the object attributes are left at their default
Tpm2BPublic_DefaultAttributes(b, parameters, unique) ==
    [size |-> "size_of_TPMT_PUBLIC",
     publicArea |-> [type_ |-> b.type_, nameAlg |-> b.name_alg,
                     objectAttributes |-> 0,
                     authPolicy |-> b.auth_policy,
                     parameters |-> [rsaDetail |-> parameters],
                     unique |-> [rsa |-> unique]]]

\* the TPM2B_PUBLIC of a successful build
Tpm2BPublic(b, parameters, unique) ==
    [size |-> "size_of_TPMT_PUBLIC",
     publicArea |-> [type_ |-> b.type_, nameAlg |-> b.name_alg,
                     objectAttributes |-> b.object_attributes,
                     authPolicy |-> b.auth_policy,
                     parameters |-> [rsaDetail |-> parameters],
                     unique |-> [rsa |-> unique]]]

\* variant: the unique value is checked before the parameters
PublicBuild_UniqueFirst(b) ==
    IF b.type_ = "TPM2_ALG_RSA"
    THEN IF b.unique # Unset /\ b.unique.variant # "Rsa"
         THEN Err("InconsistentParams")
         ELSE IF b.parameters = Unset THEN Err("ParamsMissing")
         ELSE IF b.parameters.variant # "RsaDetail" THEN Err("InconsistentParams")
         ELSE Ok(Tpm2BPublic(b, b.parameters.parms,
                             IF b.unique = Unset THEN RsaKeyDefault ELSE b.unique.id))
    ELSE Err("UnsupportedParam")

\* Tpm2BPublicBuilder::build
PublicBuild(b) ==
    IF b.type_ = "TPM2_ALG_RSA"
    THEN IF b.parameters = Unset THEN Err("ParamsMissing")
         ELSE IF b.parameters.variant # "RsaDetail" THEN Err("InconsistentParams")
         ELSE IF b.unique # Unset /\ b.unique.variant # "Rsa"
         THEN Err("InconsistentParams")
         ELSE Ok(Tpm2BPublic(b, b.parameters.parms,
                             IF b.unique = Unset THEN RsaKeyDefault ELSE b.unique.id))
    ELSE Err("UnsupportedParam")

\* PublicIdUnion::from_public
from_public(public) ==
    IF public.publicArea.type_ = "TPM2_ALG_RSA"
    THEN Ok(PublicId("Rsa", public.publicArea.unique.rsa))
    ELSE Err("UnsupportedParam")

WithType(type_) ==
    /\ pub_result = NoResult
    /\ pub' = [pub EXCEPT !.type_ = type_]
    /\ UNCHANGED <<pub_result, nonPubVars>>

WithNameAlg(name_alg) ==
    /\ pub_result = NoResult
    /\ pub' = [pub EXCEPT !.name_alg = name_alg]
    /\ UNCHANGED <<pub_result, nonPubVars>>

WithObjectAttributes(obj_attr) ==
    /\ pub_result = NoResult
    /\ pub' = [pub EXCEPT !.object_attributes = obj_attr]
    /\ UNCHANGED <<pub_result, nonPubVars>>

WithAuthPolicy(digest) ==
    /\ pub_result = NoResult
    /\ pub' = [pub EXCEPT !.auth_policy = digest]
    /\ UNCHANGED <<pub_result, nonPubVars>>

WithParms(parameters) ==
    /\ pub_result = NoResult
    /\ pub' = [pub EXCEPT !.parameters = parameters]
    /\ UNCHANGED <<pub_result, nonPubVars>>

WithUnique(unique) ==
    /\ pub_result = NoResult
    /\ pub' = [pub EXCEPT !.unique = unique]
    /\ UNCHANGED <<pub_result, nonPubVars>>

\* build(self): the builder is consumed
PubBuild ==
    /\ pub_result = NoResult
    /\ pub_result' = PublicBuild(pub)
    /\ UNCHANGED <<pub, nonPubVars>>

InitPub ==
    /\ pub = Tpm2BPublicBuilderNew
    /\ pub_result = NoResult

\* Context::new
InitCtx ==
    /\ esys_context = "Some"
    /\ tcti_context = "Some"
    /\ sessions = <<NoSession, NoSession, NoSession>>
    /\ open_handles = HandleManagerNew
    /\ log = <<>>
    /\ drop_mark = -1
    /\ leak_reported = FALSE
    /\ stack = <<>>
    /\ ret = NoRet

\* ------------------------------------------------------------------------
\* PCR selection lists (structures/lists/pcr_selection.rs)
\* ------------------------------------------------------------------------

\* the longest slot vector a builder entry is grown to
MaxVec == 2

\* the most banks of a wire list given to try_from
MaxBanks == 2

\* PcrSelectionList::MAX_SIZE
MAX_SIZE == 16

HashingAlgorithms == {"Sha1", "Sha256"}

\* the PcrSelectSize values given to the builder and found on the wire
PcrSelectSizes == {1, 3}

\* PcrSelectSize::default()
PcrSelectSizeDefault == 3

\* the slot slices given to with_selection
PcrSlices == {<<>>, <<0>>, <<16>>, <<0, 16>>}

\* PcrSelection::new : the slots of the slice, as a set
PcrSelectionNew(alg, size_of_select, slots) ==
    [hashing_algorithm |-> alg, size_of_select |-> size_of_select,
     selected_pcrs |-> {slots[i] : i \in DOMAIN slots}]

\* PcrSelection::is_empty
PcrSelectionIsEmpty(sel) == sel.selected_pcrs = {}

\* PcrSelection::merge : union of the slots, InconsistentParams when the two
\* widths differ
PcrSelectionMerge(sel, other) ==
    IF sel.size_of_select # other.size_of_select
    THEN Err("InconsistentParams")
    ELSE Ok([sel EXCEPT !.selected_pcrs = sel.selected_pcrs \cup other.selected_pcrs])

\* PcrSelection::subtract : asymmetric difference of the slots. A selection
\* that cannot be subtracted (constraints of PcrSelectionList::subtract,
\* lines 46-57) is one of another width, InconsistentParams as for merge, or
\* one with a slot that sel does not select, InvalidParam; sel is then
\* left as it was
PcrSelectionSubtract(sel, other) ==
    IF sel.size_of_select # other.size_of_select
    THEN Err("InconsistentParams")
    ELSE IF ~(other.selected_pcrs \subseteq sel.selected_pcrs)
    THEN Err("InvalidParam")
    ELSE Ok([sel EXCEPT !.selected_pcrs = sel.selected_pcrs \ other.selected_pcrs])

\* bit (i mod 8) of octet i/8 of a selection mask
MaskBit(mask, i) == (mask[(i \div 8) + 1] \div (2 ^ (i % 8))) % 2 = 1

\* PcrSelection::try_from(TPMS_PCR_SELECTION)
PcrSelectionTryFrom(tpms) ==
    Ok([hashing_algorithm |-> tpms.hash, size_of_select |-> tpms.sizeofSelect,
        selected_pcrs |-> {i \in 0..(tpms.sizeofSelect * 8 - 1) : MaskBit(tpms.pcrSelect, i)}])

\* a PcrSelectionList: items holds one PcrSelection per hashing algorithm
PcrSelectionList(items) == [items |-> items]

\* HashMap::keys
Keys(items) == {sel.hashing_algorithm : sel \in items}

\* HashMap::get
Get(items, alg) == CHOOSE sel \in items : sel.hashing_algorithm = alg

\* PcrSelectionList::len
len(list) == Cardinality(list.items)

\* PcrSelectionList::is_empty
is_empty(list) == list.items = {}

\* the orders in which a HashMap may hand out the keys of items
KeyOrders(items) ==
    LET n == Cardinality(Keys(items))
    IN  {o \in [1..n -> Keys(items)] : \A i, j \in 1..n : i # j => o[i] # o[j]}

RECURSIVE SubtractLoop_SkipMissing(_, _, _)
\* variant: an algorithm of other that self does not have is passed over
SubtractLoop_SkipMissing(items, other, order) ==
    IF order = <<>> THEN [items |-> items, result |-> Ok("()")]
    ELSE LET hashing_algorithm == Head(order)
         IN  IF hashing_algorithm \notin Keys(items)
             THEN SubtractLoop_SkipMissing(items, other, Tail(order))
             ELSE LET pcr_selection == Get(items, hashing_algorithm)
                      val == Get(other, hashing_algorithm)
                      sub == PcrSelectionSubtract(pcr_selection, val)
                  IN  IF sub.tag = "Err"
                      THEN [items |-> items, result |-> sub]
                      ELSE SubtractLoop_SkipMissing(
                              IF PcrSelectionIsEmpty(sub.value)
                              THEN items \ {pcr_selection}
                              ELSE (items \ {pcr_selection}) \cup {sub.value},
                              other, Tail(order))

RECURSIVE SubtractLoop_KeepEmpty(_, _, _)
\* variant: a bank left without slots stays in the list
SubtractLoop_KeepEmpty(items, other, order) ==
    IF order = <<>> THEN [items |-> items, result |-> Ok("()")]
    ELSE LET hashing_algorithm == Head(order)
         IN  IF hashing_algorithm \notin Keys(items)
             THEN [items |-> items, result |-> Err("InvalidParam")]
             ELSE LET pcr_selection == Get(items, hashing_algorithm)
                      val == Get(other, hashing_algorithm)
                      sub == PcrSelectionSubtract(pcr_selection, val)
                  IN  IF sub.tag = "Err"
                      THEN [items |-> items, result |-> sub]
                      ELSE SubtractLoop_KeepEmpty(
                              (items \ {pcr_selection}) \cup {sub.value},
                              other, Tail(order))

RECURSIVE SubtractLoop(_, _, _)
\* the loop of subtract over other.items.keys(), lines 86-108: the items of
\* self when it ends and what subtract returns
SubtractLoop(items, other, order) ==
    IF order = <<>> THEN [items |-> items, result |-> Ok("()")]
    ELSE LET hashing_algorithm == Head(order)
         IN  IF hashing_algorithm \notin Keys(items)
             THEN [items |-> items, result |-> Err("InvalidParam")]
             ELSE LET pcr_selection == Get(items, hashing_algorithm)
                      val == Get(other, hashing_algorithm)
                      sub == PcrSelectionSubtract(pcr_selection, val)
                  IN  IF sub.tag = "Err"
                      THEN [items |-> items, result |-> sub]
                      ELSE SubtractLoop(
                              IF PcrSelectionIsEmpty(sub.value)
                              THEN items \ {pcr_selection}
                              ELSE (items \ {pcr_selection}) \cup {sub.value},
                              other, Tail(order))

\* variant: equal lists are subtracted bank by bank like any others
subtract_NoEqualCase(self, other, order) ==
    IF is_empty(self)
    THEN [self |-> self, result |-> Err("InvalidParam")]
    ELSE LET r == SubtractLoop(self.items, other.items, order)
         IN  [self |-> PcrSelectionList(r.items), result |-> r.result]

\* PcrSelectionList::subtract, order being the order of other.items.keys():
\* self after the call and the value returned
subtract(self, other, order) ==
    IF self = other
    THEN [self |-> PcrSelectionList({}), result |-> Ok("()")]
    ELSE IF is_empty(self)
    THEN [self |-> self, result |-> Err("InvalidParam")]
    ELSE LET r == SubtractLoop(self.items, other.items, order)
         IN  [self |-> PcrSelectionList(r.items), result |-> r.result]

\* TPMS_PCR_SELECTION values found on the wire
MaskInputs == {<<0, 0, 0, 0>>, <<1, 0, 0, 0>>, <<1, 0, 1, 0>>, <<0, 0, 128, 0>>}

TpmsInputs ==
    [hash : HashingAlgorithms, sizeofSelect : PcrSelectSizes, pcrSelect : MaskInputs]

\* TPML_PCR_SELECTION values: count and the first count entries of pcrSelections
TpmlInputs ==
    UNION {{[count |-> n, pcrSelections |-> banks] : banks \in [1..n -> TpmsInputs]}
              : n \in 0..MaxBanks}
    \cup {[count |-> n, pcrSelections |-> [k \in 1..MAX_SIZE |-> IF k = 1 THEN t1 ELSE t2]]
             : n \in {MAX_SIZE, MAX_SIZE + 1}, t1 \in TpmsInputs, t2 \in TpmsInputs}

TpmlDefault == [count |-> 0, pcrSelections |-> <<>>]

RECURSIVE TryFromLoop_Overwrite(_, _)
\* variant: a bank seen again replaces the earlier one
TryFromLoop_Overwrite(items, banks) ==
    IF banks = <<>> THEN Ok(PcrSelectionList(items))
    ELSE LET parsed == PcrSelectionTryFrom(Head(banks))
         IN  IF parsed.tag = "Err" THEN parsed
             ELSE LET alg == parsed.value.hashing_algorithm
                  IN  IF alg \in Keys(items)
                      THEN TryFromLoop_Overwrite(
                              (items \ {Get(items, alg)}) \cup {parsed.value},
                              Tail(banks))
                      ELSE TryFromLoop_Overwrite(items \cup {parsed.value}, Tail(banks))

RECURSIVE TryFromLoop(_, _)
\* the loop of try_from over pcrSelections[..size], lines 140-157
TryFromLoop(items, banks) ==
    IF banks = <<>> THEN Ok(PcrSelectionList(items))
    ELSE LET parsed == PcrSelectionTryFrom(Head(banks))
         IN  IF parsed.tag = "Err" THEN parsed
             ELSE LET alg == parsed.value.hashing_algorithm
                  IN  IF alg \in Keys(items)
                      THEN LET previously == Get(items, alg)
                               merged == PcrSelectionMerge(previously, parsed.value)
                           IN  IF merged.tag = "Err" THEN merged
                               ELSE TryFromLoop((items \ {previously}) \cup {merged.value},
                                                Tail(banks))
                      ELSE TryFromLoop(items \cup {parsed.value}, Tail(banks))

\* variant: a list of MAX_SIZE banks is rejected too
PcrSelectionListTryFrom_AtLeast(tpml) ==
    IF tpml.count >= MAX_SIZE
    THEN Err("InvalidParam")
    ELSE TryFromLoop({}, SubSeq(tpml.pcrSelections, 1, tpml.count))

\* TryFrom<TPML_PCR_SELECTION> for PcrSelectionList
PcrSelectionListTryFrom(tpml) ==
    IF tpml.count > MAX_SIZE
    THEN Err("InvalidParam")
    ELSE TryFromLoop({}, SubSeq(tpml.pcrSelections, 1, tpml.count))

\* PcrSelectionListBuilder::new : items holds one slot vector per algorithm
PcrSelectionListBuilderNew == [size_of_select |-> Unset, items |-> {}]

\* PcrSelectionListBuilder::with_size_of_select
with_size_of_select(b, size_of_select) ==
    [b EXCEPT !.size_of_select = [variant |-> "Some", size |-> size_of_select]]

\* PcrSelectionListBuilder::with_selection
with_selection(b, hash_algorithm, pcr_slots) ==
    IF \E it \in b.items : it.hash = hash_algorithm
    THEN LET previously == CHOOSE it \in b.items : it.hash = hash_algorithm
         IN  [b EXCEPT !.items = (b.items \ {previously})
                         \cup {[hash |-> hash_algorithm,
                                slots |-> previously.slots \o pcr_slots]}]
    ELSE [b EXCEPT !.items = b.items \cup {[hash |-> hash_algorithm, slots |-> pcr_slots]}]

\* PcrSelectionListBuilder::build
build(b) ==
    LET size_of_select == IF b.size_of_select = Unset THEN PcrSelectSizeDefault
                          ELSE b.size_of_select.size
    IN  PcrSelectionList({PcrSelectionNew(it.hash, size_of_select, it.slots) : it \in b.items})

\* the slot vector with_selection would leave for hash_algorithm
GrownVec(b, hash_algorithm, pcr_slots) ==
    Get({[hashing_algorithm |-> it.hash, slots |-> it.slots]
            : it \in with_selection(b, hash_algorithm, pcr_slots).items},
        hash_algorithm).slots

PcrWithSizeOfSelect(size_of_select) ==
    /\ pcr_other = NoResult
    /\ pcr_builder' = with_size_of_select(pcr_builder, size_of_select)
    /\ UNCHANGED <<pcr_self, pcr_other, pcr_last, pcr_tpml, pcr_decoded, pcr_read_ret, nonPcrVars>>

PcrWithSelection(hash_algorithm, pcr_slots) ==
    /\ pcr_other = NoResult
    /\ pcr_builder' = with_selection(pcr_builder, hash_algorithm, pcr_slots)
    /\ UNCHANGED <<pcr_self, pcr_other, pcr_last, pcr_tpml, pcr_decoded, pcr_read_ret, nonPcrVars>>

\* the first list built is self, the second is other; each comes from a
\* builder of its own
PcrBuild ==
    /\ pcr_other = NoResult
    /\ IF pcr_self = NoResult
       THEN pcr_self' = build(pcr_builder) /\ UNCHANGED pcr_other
       ELSE pcr_other' = build(pcr_builder) /\ UNCHANGED pcr_self
    /\ pcr_builder' = PcrSelectionListBuilderNew
    /\ UNCHANGED <<pcr_last, pcr_tpml, pcr_decoded, pcr_read_ret, nonPcrVars>>

\* self.subtract(&other)
PcrSubtract ==
    /\ pcr_self # NoResult /\ pcr_other # NoResult /\ pcr_last = NoResult
    /\ \E order \in KeyOrders(pcr_other.items) :
          LET r == subtract(pcr_self, pcr_other, order)
          IN  /\ pcr_self' = r.self
              /\ pcr_last' = [tag |-> "subtract", self |-> pcr_self, result |-> r.result]
    /\ UNCHANGED <<pcr_builder, pcr_other, pcr_tpml, pcr_decoded, pcr_read_ret, nonPcrVars>>

\* PcrSelectionList::try_from(tpml)
PcrListTryFrom ==
    /\ pcr_decoded = NoResult
    /\ pcr_decoded' = PcrSelectionListTryFrom(pcr_tpml)
    /\ UNCHANGED <<pcr_builder, pcr_self, pcr_other, pcr_last, pcr_tpml, pcr_read_ret,
                   nonPcrVars>>

InitPcr ==
    /\ pcr_builder = PcrSelectionListBuilderNew
    /\ pcr_self = NoResult
    /\ pcr_other = NoResult
    /\ pcr_last = NoResult
    /\ pcr_tpml = TpmlDefault
    /\ pcr_decoded = NoResult
    /\ pcr_read_ret = NoResult

\* ------------------------------------------------------------------------
\* PcrSelections (utils/mod.rs)
\* ------------------------------------------------------------------------

\* the size_of_select values given to PcrSelectionsBuilder
SelsSizes == {1, 3}

\* the slot slices given to PcrSelectionsBuilder::with_selection
SelsSlices == {<<>>, <<0>>, <<0, 16>>, <<23>>}

\* pcr_slots.iter().cloned().collect() : the HashSet of a slice
SlotSet(pcr_slots) == {pcr_slots[i] : i \in DOMAIN pcr_slots}

\* PcrSelectionsBuilder::new : items holds one slot set per algorithm
PcrSelectionsBuilderNew == [size_of_select |-> Unset, items |-> {}]

\* PcrSelectionsBuilder::with_size_of_select
PcrSelectionsBuilder_with_size_of_select(b, size_of_select) ==
    [b EXCEPT !.size_of_select = [variant |-> "Some", size |-> size_of_select]]

\* variant: a second insertion for an algorithm replaces the first
PcrSelectionsBuilder_with_selection_Overwrite(b, hash_algorithm, pcr_slots) ==
    [b EXCEPT !.items = {it \in b.items : it.hash # hash_algorithm}
                    \cup {[hash |-> hash_algorithm, slots |-> SlotSet(pcr_slots)]}]

\* PcrSelectionsBuilder::with_selection
PcrSelectionsBuilder_with_selection(b, hash_algorithm, pcr_slots) ==
    LET selected_pcr_slots == SlotSet(pcr_slots)
    IN  IF \E it \in b.items : it.hash = hash_algorithm
        THEN LET previously == CHOOSE it \in b.items : it.hash = hash_algorithm
             IN  [b EXCEPT !.items = (b.items \ {previously})
                             \cup {[hash |-> hash_algorithm,
                                    slots |-> previously.slots \cup selected_pcr_slots]}]
        ELSE [b EXCEPT !.items = b.items
                        \cup {[hash |-> hash_algorithm, slots |-> selected_pcr_slots]}]

\* PcrSelectionsBuilder::build
PcrSelectionsBuilder_build(b) ==
    [size_of_select |-> IF b.size_of_select = Unset THEN 3 ELSE b.size_of_select.size,
     items |-> b.items]

\* HashingAlgorithm -> TPM2_ALG_ID
HashingAlgorithmInto(alg) ==
    CASE alg = "Sha1" -> "TPM2_ALG_SHA1"
      [] alg = "Sha256" -> "TPM2_ALG_SHA256"

\* byte | value for a value with one bit set
BitOr(byte, value) == IF (byte \div value) % 2 = 1 THEN byte ELSE byte + value

RECURSIVE SetSlots_MsbFirst(_, _)
\* variant: slot 0 is the highest bit of octet 0
SetSlots_MsbFirst(pcrSelect, pcr_slots) ==
    IF pcr_slots = {} THEN pcrSelect
    ELSE LET pcr_slot == CHOOSE x \in pcr_slots : TRUE
             index == pcr_slot \div 8
             value == 2 ^ (7 - (pcr_slot % 8))
         IN  SetSlots_MsbFirst([pcrSelect EXCEPT ![index + 1] = BitOr(@, value)],
                               pcr_slots \ {pcr_slot})

RECURSIVE SetSlots(_, _)
\* the loop over pcr_slots of From<PcrSelections>, lines 1106-1110
SetSlots(pcrSelect, pcr_slots) ==
    IF pcr_slots = {} THEN pcrSelect
    ELSE LET pcr_slot == CHOOSE x \in pcr_slots : TRUE
             index == pcr_slot \div 8
             value == 2 ^ (pcr_slot % 8)
         IN  SetSlots([pcrSelect EXCEPT ![index + 1] = BitOr(@, value)],
                      pcr_slots \ {pcr_slot})

\* the orders in which the HashMap of a PcrSelections may hand out its entries
SelsOrders(items) ==
    LET n == Cardinality(items)
    IN  {o \in [1..n -> items] : \A i, j \in 1..n : i # j => o[i] # o[j]}

\* From<PcrSelections> for TPML_PCR_SELECTION, order being the order of the
\* iteration over items
PcrSelectionsInto(pcr_selections, order) ==
    [count |-> Len(order),
     pcrSelections |->
        [k \in 1..Len(order) |->
            [hash |-> HashingAlgorithmInto(order[k].hash),
             sizeofSelect |-> pcr_selections.size_of_select,
             pcrSelect |-> SetSlots(<<0, 0, 0, 0>>, order[k].slots)]]]

\* octet n (from 1) of the mask of a slot set: bit j stands for slot (n-1)*8+j
OctetOf(slots, n) ==
    LET bit(j) == IF (n - 1) * 8 + j \in slots THEN 2 ^ j ELSE 0
    IN  bit(0) + bit(1) + bit(2) + bit(3) + bit(4) + bit(5) + bit(6) + bit(7)

\* PcrSelection -> TPMS_PCR_SELECTION
PcrSelectionInto(sel) ==
    [hash |-> sel.hashing_algorithm, sizeofSelect |-> sel.size_of_select,
     pcrSelect |-> [n \in 1..4 |-> OctetOf(sel.selected_pcrs, n)]]

\* From<PcrSelectionList> for TPML_PCR_SELECTION, order being the order of
\* the iteration over items
PcrSelectionListInto(pcr_selections, order) ==
    [count |-> Len(order),
     pcrSelections |-> [k \in 1..Len(order) |-> PcrSelectionInto(order[k])]]

\* a fault: the thread panics instead of returning
Panic == [tag |-> "Panic"]

\* HashingAlgorithm::try_from(TPM2_ALG_ID)
HashingAlgorithmTryFrom(id) ==
    CASE id = "TPM2_ALG_SHA1" -> Ok("Sha1")
      [] id = "TPM2_ALG_SHA256" -> Ok("Sha256")
      [] OTHER -> Err("InvalidParam")

\* PcrSlot::try_from(u32)
PcrSlotTryFrom(pcr_slot_number) ==
    IF pcr_slot_number \in 0..23 THEN Ok(pcr_slot_number) ELSE Err("InvalidParam")

\* (sizeofSelect * 8) - 1 in u8: with overflow checks an overflow panics,
\* without them the value wraps
SlotRangeEnd(sizeofSelect, overflow_checks) ==
    IF sizeofSelect * 8 > 255 /\ overflow_checks THEN Panic
    ELSE LET product == (sizeofSelect * 8) % 256
         IN  IF product = 0
             THEN (IF overflow_checks THEN Panic ELSE Ok(255))
             ELSE Ok(product - 1)

RECURSIVE SelectedSlots(_, _, _, _)
\* the loop for slot_nr in 0..end, lines 1133-1140, from slot_nr on: the
\* slots found, or the panic of an index past pcrSelect or of a slot number
\* PcrSlot does not have
SelectedSlots(pcrSelect, slot_nr, end, pcr_slots) ==
    IF slot_nr >= end THEN Ok(pcr_slots)
    ELSE LET index == slot_nr \div 8
         IN  IF index + 1 > Len(pcrSelect) THEN Panic
             ELSE IF MaskBit(pcrSelect, slot_nr)
             THEN (IF PcrSlotTryFrom(slot_nr).tag = "Err" THEN Panic
                   ELSE SelectedSlots(pcrSelect, slot_nr + 1, end,
                                      pcr_slots \cup {PcrSlotTryFrom(slot_nr).value}))
             ELSE SelectedSlots(pcrSelect, slot_nr + 1, end, pcr_slots)

RECURSIVE SelsTryFromLoop(_, _, _, _, _)
\* the loop over selection_index of TryFrom<TPML_PCR_SELECTION> for
\* PcrSelections, from selection_index on (counted from 0)
SelsTryFromLoop(tpml, selection_index, size_of_select, items, overflow_checks) ==
    IF selection_index >= tpml.count
    THEN (IF size_of_select = Unset THEN Panic
          ELSE Ok([size_of_select |-> size_of_select.size, items |-> items]))
    ELSE IF selection_index + 1 > Len(tpml.pcrSelections) THEN Panic
    ELSE LET selection == tpml.pcrSelections[selection_index + 1]
         IN  IF size_of_select # Unset /\ selection.sizeofSelect # size_of_select.size
             THEN Err("InconsistentParams")
             ELSE LET end == SlotRangeEnd(selection.sizeofSelect, overflow_checks)
                      found == IF end = Panic THEN Panic
                               ELSE SelectedSlots(selection.pcrSelect, 0, end.value, {})
                      alg == HashingAlgorithmTryFrom(selection.hash)
                  IN  IF found = Panic THEN Panic
                      ELSE IF alg.tag = "Err" THEN Panic
                      ELSE SelsTryFromLoop(
                              tpml, selection_index + 1,
                              [variant |-> "Some", size |-> selection.sizeofSelect],
                              {it \in items : it.hash # alg.value}
                                 \cup {[hash |-> alg.value, slots |-> found.value]},
                              overflow_checks)

\* TryFrom<TPML_PCR_SELECTION> for PcrSelections
PcrSelectionsTryFrom(tpml, overflow_checks) ==
    SelsTryFromLoop(tpml, 0, Unset, {}, overflow_checks)

\* TPMS_PCR_SELECTION values a caller or the device can hand over
SelsTpmsInputs ==
    {[hash |-> h, sizeofSelect |-> 3, pcrSelect |-> m]
        : h \in {"TPM2_ALG_SHA1", "TPM2_ALG_SHA256"},
          m \in {<<1, 0, 1, 0>>, <<0, 0, 128, 0>>}}
    \cup {[hash |-> "TPM2_ALG_SHA1", sizeofSelect |-> s, pcrSelect |-> <<0, 0, 0, 1>>]
             : s \in {0, 1, 4, 32}}
    \cup {[hash |-> "TPM2_ALG_ERROR", sizeofSelect |-> 3, pcrSelect |-> <<1, 0, 1, 0>>]}

\* TPML_PCR_SELECTION values: pcrSelections has 16 entries, of which the
\* first count are written out here; count may exceed them
SelsTpmlInputs ==
    UNION {{[count |-> n, pcrSelections |-> banks] : banks \in [1..n -> SelsTpmsInputs]}
              : n \in 0..MaxBanks}
    \cup {[count |-> MAX_SIZE + 1, pcrSelections |-> [k \in 1..MAX_SIZE |-> t]]
             : t \in SelsTpmsInputs}

SelsWithSizeOfSelect(size_of_select) ==
    /\ sels = NoResult
    /\ sels_builder' = PcrSelectionsBuilder_with_size_of_select(sels_builder, size_of_select)
    /\ UNCHANGED <<sels, sels_tpml, sels_decoded, nonSelVars>>

SelsWithSelection(hash_algorithm, pcr_slots) ==
    /\ sels = NoResult
    /\ sels_builder' = PcrSelectionsBuilder_with_selection(sels_builder, hash_algorithm,
                                                           pcr_slots)
    /\ UNCHANGED <<sels, sels_tpml, sels_decoded, nonSelVars>>

SelsBuild ==
    /\ sels = NoResult
    /\ sels' = PcrSelectionsBuilder_build(sels_builder)
    /\ UNCHANGED <<sels_builder, sels_tpml, sels_decoded, nonSelVars>>

\* let tpml: TPML_PCR_SELECTION = sels.into()
SelsInto ==
    /\ sels # NoResult /\ sels_tpml = NoResult
    /\ \E order \in SelsOrders(sels.items) : sels_tpml' = PcrSelectionsInto(sels, order)
    /\ UNCHANGED <<sels_builder, sels, sels_decoded, nonSelVars>>

\* PcrSelections::try_from(tpml), built with or without overflow checks
SelsTryFrom ==
    /\ sels_tpml # NoResult /\ sels_decoded = NoResult
    /\ \E overflow_checks \in BOOLEAN :
          sels_decoded' = PcrSelectionsTryFrom(sels_tpml, overflow_checks)
    /\ UNCHANGED <<sels_builder, sels, sels_tpml, nonSelVars>>

\* the number of PCR values the device hands out in one read
PcrReadLimit == 16

\* the slots 0 .. 16 of test_pcr_read_large_pcr_selections
LargeSlice == [i \in 1..17 |-> i - 1]

\* the selection lists pcr_read is called with
PcrReadRequests ==
    {build(b) : b \in
        {with_selection(with_selection(PcrSelectionListBuilderNew, a1, s1), a2, s2) :
            a1 \in HashingAlgorithms, a2 \in HashingAlgorithms,
            s1 \in PcrSlices \cup {LargeSlice, <<23>>},
            s2 \in PcrSlices \cup {LargeSlice, <<23>>}}}

\* the number of slots a list selects
SlotCount(list) ==
    LET RECURSIVE Sum(_)
        Sum(items) == IF items = {} THEN 0
                      ELSE LET sel == CHOOSE x \in items : TRUE
                           IN  Cardinality(sel.selected_pcrs) + Sum(items \ {sel})
    IN  Sum(list.items)

RECURSIVE DeviceRead(_, _)
\* the banks the device reports as read: the lowest slots of each bank in
\* wire order until room slots were handed out
DeviceRead(banks, room) ==
    IF banks = <<>> THEN <<>>
    ELSE LET sel  == Head(banks)
             kept == {i \in sel.selected_pcrs :
                         Cardinality({j \in sel.selected_pcrs : j < i}) < room}
         IN  <<[sel EXCEPT !.selected_pcrs = kept]>>
                \o DeviceRead(Tail(banks), room - Cardinality(kept))

\* variant: a selection the device cut short is an error
pcr_read_RejectPartial(pcr_selection_list, order, rc) ==
    IF rc # "Ok" THEN Err("Tss2Error")
    ELSE LET out == DeviceRead(order, PcrReadLimit)
             pcr_selection_list_out ==
                PcrSelectionListTryFrom(
                    [count |-> Len(out),
                     pcrSelections |-> [k \in 1..Len(out) |-> PcrSelectionInto(out[k])]])
         IN  IF pcr_selection_list_out.tag = "Err" THEN pcr_selection_list_out
             ELSE IF pcr_selection_list_out.value # pcr_selection_list
             THEN Err("InvalidParam")
             ELSE Ok(pcr_selection_list_out.value)

\* Context::pcr_read : the selection is sent in the wire order order, rc is
\* the response code of the device; the selection list read is returned
pcr_read(pcr_selection_list, order, rc) ==
    IF rc # "Ok" THEN Err("Tss2Error")
    ELSE LET out == DeviceRead(order, PcrReadLimit)
             pcr_selection_list_out ==
                PcrSelectionListTryFrom(
                    [count |-> Len(out),
                     pcrSelections |-> [k \in 1..Len(out) |-> PcrSelectionInto(out[k])]])
         IN  IF pcr_selection_list_out.tag = "Err" THEN pcr_selection_list_out
             ELSE Ok(pcr_selection_list_out.value)

\* context.pcr_read(&pcr_self)
PcrRead(rc) ==
    /\ pcr_self # NoResult /\ pcr_read_ret = NoResult
    /\ \E order \in SelsOrders(pcr_self.items) :
          pcr_read_ret' = [tag |-> "pcr_read", rc |-> rc,
                           result |-> pcr_read(pcr_self, order, rc)]
    /\ UNCHANGED <<pcr_builder, pcr_self, pcr_other, pcr_last, pcr_tpml, pcr_decoded,
                   nonPcrVars>>

InitSel ==
    /\ sels_builder = PcrSelectionsBuilderNew
    /\ sels = NoResult
    /\ sels_tpml = NoResult
    /\ sels_decoded = NoResult

InitTeardown == InitCtx /\ InitPub /\ InitRsa /\ InitPcr /\ InitSel

NextTeardown ==
    \/ \E h \in Handles, d \in Dispositions : AddHandle(h, d)
    \/ Drop

SpecTeardown == InitTeardown /\ [][NextTeardown]_vars

InitSessions == InitCtx /\ InitPub /\ InitRsa /\ InitPcr /\ InitSel

NextSessions ==
    \/ \E t \in SessionInputs : SetSessions(t)
    \/ ClearSessions
    \/ \E t \in SessionInputs : ExecuteWithSessions(t)
    \/ \E o \in SessionOptions : ExecuteWithSession(o)
    \/ ExecuteWithoutSession
    \/ \E fres \in {"Ok", "Err"} : ExecuteWithSessionsReturn(fres)

SpecSessions == InitSessions /\ [][NextSessions]_vars

InitCleanup == InitCtx /\ InitPub /\ InitRsa /\ InitPcr /\ InitSel

NextCleanup ==
    \/ \E h \in ObjHandles, d \in Dispositions : AddHandle(h, d)
    \/ \E h \in ObjHandles, ok \in BOOLEAN :
          Len(log) + Len(stack) < MaxCmds /\ FlushContext(h, ok)
    \/ \E h \in ObjHandles, o \in NullauthOutcomes : ExecuteWithNullauthSession(h, o)
    \/ \E fres \in {"Ok", "Err"}, ok \in BOOLEAN : ExecuteWithNullauthSessionReturn(fres, ok)
    \/ \E h \in ObjHandles : ExecuteWithTemporaryObject(h)
    \/ \E fres \in {"Ok", "Err"}, ok \in BOOLEAN : ExecuteWithTemporaryObjectReturn(fres, ok)

SpecCleanup == InitCleanup /\ [][NextCleanup]_vars

InitPublicBuilder == InitCtx /\ InitPub /\ InitRsa /\ InitPcr /\ InitSel

NextPublicBuilder ==
    \/ \E t \in PublicTypes : WithType(t)
    \/ \E a \in NameAlgs : WithNameAlg(a)
    \/ \E o \in ObjectAttributesInputs : WithObjectAttributes(o)
    \/ \E d \in AuthPolicyInputs : WithAuthPolicy(d)
    \/ \E p \in PublicParmsInputs : WithParms(p)
    \/ \E u \in PublicIdInputs : WithUnique(u)
    \/ PubBuild

SpecPublicBuilder == InitPublicBuilder /\ [][NextPublicBuilder]_vars

InitRsaParms == InitCtx /\ InitPub /\ InitRsa /\ InitPcr /\ InitSel

NextRsaParms ==
    \/ \E sy \in SymDefObjects, k \in KeyBitsInputs, e \in ExponentInputs :
          NewRestrictedDecryptionKey(sy, k, e)
    \/ \E sc \in AsymSchemes, k \in KeyBitsInputs, e \in ExponentInputs :
          NewUnrestrictedSigningKey(sc, k, e)
    \/ \E v \in SymDefObjects \cup {Unset} : RsaSetSymmetric(v)
    \/ \E v \in AsymSchemes \cup {Unset} : RsaSetScheme(v)
    \/ \E v \in KeyBitsInputs : RsaSetKeyBits(v)
    \/ \E v \in ExponentInputs : RsaSetExponent(v)
    \/ \E v \in BOOLEAN : RsaSetForSigning(v)
    \/ \E v \in BOOLEAN : RsaSetForDecryption(v)
    \/ \E v \in BOOLEAN : RsaSetRestricted(v)
    \/ RsaBuild

SpecRsaParms == InitRsaParms /\ [][NextRsaParms]_vars

InitPcrSubtract == InitCtx /\ InitPub /\ InitRsa /\ InitPcr /\ InitSel

NextPcrSubtract ==
    \/ \E sz \in PcrSelectSizes : PcrWithSizeOfSelect(sz)
    \/ \E alg \in HashingAlgorithms, sl \in PcrSlices :
          Len(GrownVec(pcr_builder, alg, sl)) <= MaxVec /\ PcrWithSelection(alg, sl)
    \/ PcrBuild
    \/ PcrSubtract

SpecPcrSubtract == InitPcrSubtract /\ [][NextPcrSubtract]_vars

\* the wire list is whatever the device or the caller hands over
InitPcrDecode ==
    /\ InitCtx /\ InitPub /\ InitRsa /\ InitSel
    /\ pcr_builder = PcrSelectionListBuilderNew
    /\ pcr_self = NoResult
    /\ pcr_other = NoResult
    /\ pcr_last = NoResult
    /\ pcr_tpml \in TpmlInputs
    /\ pcr_decoded = NoResult
    /\ pcr_read_ret = NoResult

NextPcrDecode == PcrListTryFrom

SpecPcrDecode == InitPcrDecode /\ [][NextPcrDecode]_vars

\* the commands issued by Drop::drop
TeardownLog == IF drop_mark < 0 THEN <<>> ELSE SubSeq(log, drop_mark + 1, Len(log))

\* the step taken by Drop::drop
IsTeardownStep == drop_mark < 0 /\ drop_mark' >= 0

\* number of commands c for handle h among entries from+1..Len(l) of l
Issued(l, from, c, h) ==
    Cardinality({i \in (from + 1)..Len(l) : l[i].cmd = c /\ l[i].handle = h})

\* ------------------------------------------------------------------------
\* C1: during teardown every flush command is issued before any close
\* command, whatever the outstanding handles and the commands' outcomes.
\* ------------------------------------------------------------------------
C1_FlushesPrecedeCloses ==
    \A i, j \in 1..Len(TeardownLog) :
        (TeardownLog[i].cmd = "close" /\ TeardownLog[j].cmd = "flush") => j < i

\* a teardown that issued two flushes and a close, one of the flushes failing
C1_Witness ==
    /\ drop_mark >= 0
    /\ Cardinality({i \in 1..Len(TeardownLog) : TeardownLog[i].cmd = "flush"}) >= 2
    /\ \E i \in 1..Len(TeardownLog) : TeardownLog[i].cmd = "close"
    /\ \E i \in 1..Len(TeardownLog) : TeardownLog[i].cmd = "flush" /\ ~TeardownLog[i].ok

\* ------------------------------------------------------------------------
\* C2: a failing flush or close does not abort teardown: every outstanding
\* MustFlush and MustClose handle still gets its release command and both
\* the device and the transport context are finalized.
\* ------------------------------------------------------------------------
C2_FailureDoesNotAbort ==
    [][IsTeardownStep =>
        /\ \A h \in Handles :
              open_handles[h] \in {"MustFlush", "MustClose"} =>
                  \E i \in (Len(log) + 1)..Len(log') : log'[i].handle = h
        /\ esys_context' = None
        /\ tcti_context' = None]_vars

\* a teardown whose first command failed and which issued two more
C2_Witness ==
    /\ drop_mark >= 0
    /\ Len(TeardownLog) >= 3
    /\ ~TeardownLog[1].ok
    /\ esys_context = None /\ tcti_context = None

\* ------------------------------------------------------------------------
\* C3: after a teardown in which every release command succeeded,
\* has_open_handles() is false.
\* ------------------------------------------------------------------------
C3_NoOpenHandlesAfterCleanTeardown ==
    (drop_mark >= 0 /\ \A i \in 1..Len(TeardownLog) : TeardownLog[i].ok)
        => (~has_open_handles(open_handles) /\ ~leak_reported)

\* three handles of both dispositions were released successfully
C3_Witness ==
    /\ drop_mark >= 0
    /\ Len(TeardownLog) >= 3
    /\ \A i \in 1..Len(TeardownLog) : TeardownLog[i].ok
    /\ \E i \in 1..Len(TeardownLog) : TeardownLog[i].cmd = "flush"
    /\ \E i \in 1..Len(TeardownLog) : TeardownLog[i].cmd = "close"
    /\ ~has_open_handles(open_handles)

\* ------------------------------------------------------------------------
\* C4: teardown issues exactly one flush per outstanding MustFlush handle,
\* exactly one close per outstanding MustClose handle (a failed command is
\* not issued again) and no command for a Permanent or unregistered handle.
\* ------------------------------------------------------------------------
C4_OneReleasePerHandle ==
    [][IsTeardownStep =>
        \A h \in Handles :
            /\ Issued(log', Len(log), "flush", h)
                  = (IF open_handles[h] = "MustFlush" THEN 1 ELSE 0)
            /\ Issued(log', Len(log), "close", h)
                  = (IF open_handles[h] = "MustClose" THEN 1 ELSE 0)]_vars

\* a teardown with a Permanent handle registered and a failed release
C4_Witness ==
    /\ drop_mark >= 0
    /\ \E h \in Handles : open_handles[h] = "Permanent"
    /\ \E i \in 1..Len(TeardownLog) : ~TeardownLog[i].ok
    /\ \E i \in 1..Len(TeardownLog) : TeardownLog[i].ok

\* ------------------------------------------------------------------------
\* C5: execute_with_sessions(R, f) runs f with sessions() = R and on return
\* sessions() is again what it was at the call, whether f succeeds or fails,
\* changes the sessions itself or nests further scoped calls;
\* execute_with_session(s, f) installs (s, None, None) and
\* execute_without_session(f) installs (None, None, None).
\* ------------------------------------------------------------------------
C5_ScopedSessionsRestored ==
    [][/\ (Len(stack') > Len(stack)) =>
            (sessions' = stack'[Len(stack')].requested
               /\ stack'[Len(stack')].entry = sessions)
       /\ (Len(stack') < Len(stack) /\ Top.kind = "sessions") =>
            sessions' = Top.entry]_vars

\* a failing nested call returned to an outer call's work, which had changed
\* the sessions it was given, and the sessions differ from those of the
\* nested call
C5_Witness ==
    /\ Len(stack) = 1
    /\ ret.op = "sessions" /\ ret.fres = "Err"
    /\ sessions # stack[1].requested
    /\ sessions # stack[1].entry
    /\ sessions # <<NoSession, NoSession, NoSession>>

\* a flush command for handle h is in the log
FlushIssued(h) == \E i \in 1..Len(log) : log[i].cmd = "flush" /\ log[i].handle = h

\* the step in which a scoped call of the given kind returns
IsReturnOf(kind) == Len(stack') < Len(stack) /\ Top.kind = kind

\* ------------------------------------------------------------------------
\* C6: on every return of execute_with_nullauth_session after the session
\* was opened (f succeeded, f failed, or setting the attributes failed) a
\* flush command has been issued for that session.
\* ------------------------------------------------------------------------
C6_NullauthAlwaysFlushes ==
    (ret.op = "nullauth" /\ ret.handle # NoSession) => FlushIssued(ret.handle)

\* ------------------------------------------------------------------------
\* C7: after execute_with_nullauth_session whose work returned an error,
\* the session it opened is not an outstanding MustFlush handle.
\* ------------------------------------------------------------------------
C7_NoOutstandingSession ==
    [][(IsReturnOf("nullauth") /\ ret'.fres = "Err")
          => open_handles'[Top.handle] # "MustFlush"]_vars

\* ------------------------------------------------------------------------
\* C8: execute_with_temporary_object(object, f) issues one flush command
\* for object when f has returned, whether f returned Ok or Err, and the
\* object is released: a registered object is no longer registered when
\* the call returns.
\* ------------------------------------------------------------------------
C8_TemporaryObjectReleased ==
    [][IsReturnOf("tempobj") =>
          /\ Len(log') = Len(log) + 1
          /\ log'[Len(log')].cmd = "flush"
          /\ log'[Len(log')].handle = Top.handle
          /\ open_handles[Top.handle] = "MustFlush"
                => open_handles'[Top.handle] = "Absent"]_vars

\* ------------------------------------------------------------------------
\* C9: Tpm2BPublicBuilder.build() returns UnsupportedParam when the kind is
\* unset or not RSA; else ParamsMissing when no parameter block was set;
\* else InconsistentParams when the parameter block is not the RSA variant
\* or a unique value is present and is not the RSA variant; otherwise it
\* succeeds, with an empty default unique value when none was set.
\* ------------------------------------------------------------------------
C9_PublicBuildClassification ==
    pub_result # NoResult =>
        IF pub.type_ = None \/ pub.type_ # "TPM2_ALG_RSA"
        THEN pub_result = Err("UnsupportedParam")
        ELSE IF pub.parameters = Unset
        THEN pub_result = Err("ParamsMissing")
        ELSE IF \/ pub.parameters.variant # "RsaDetail"
                \/ (pub.unique # Unset /\ pub.unique.variant # "Rsa")
        THEN pub_result = Err("InconsistentParams")
        ELSE /\ pub_result.tag = "Ok"
             /\ pub_result.value.publicArea.unique.rsa
                  = (IF pub.unique = Unset THEN RsaKeyDefault ELSE pub.unique.id)

\* an RSA builder with a non-RSA unique value and no parameter block
\* was built
C9_Witness ==
    /\ pub.type_ = "TPM2_ALG_RSA"
    /\ pub.parameters = Unset
    /\ pub.unique # Unset /\ pub.unique.variant = "Ecc"
    /\ pub_result = Err("ParamsMissing")

\* ------------------------------------------------------------------------
\* C10: TpmsRsaParmsBuilder.build() returns ParamsMissing when restricted
\* and for_decryption hold and no symmetric cipher is set, and
\* InconsistentParams when they do not both hold and a symmetric cipher is
\* set, whatever the other fields.
\* ------------------------------------------------------------------------
C10_SymmetricRule ==
    rsa_result # NoResult =>
        /\ (rsa.restricted /\ rsa.for_decryption /\ rsa.symmetric = Unset)
              => rsa_result = Err("ParamsMissing")
        /\ (~(rsa.restricted /\ rsa.for_decryption) /\ rsa.symmetric # Unset)
              => rsa_result = Err("InconsistentParams")

\* a builder with a symmetric cipher, no scheme and no restricted decryption
\* was built
C10_Witness ==
    /\ ~rsa.restricted /\ rsa.for_decryption
    /\ rsa.symmetric # Unset
    /\ rsa.scheme = Unset
    /\ rsa_result = Err("InconsistentParams")

\* the builder was built and this is what build saw
RsaBuilt == rsa_result # NoResult

RsaSchemeId == get_rsa_scheme(rsa.scheme).scheme

SignatureOnly == {"TPM2_ALG_RSASSA", "TPM2_ALG_RSAPSS"}

\* the symmetric-cipher rule of build is satisfied
SymmetricRuleOk == (rsa.restricted /\ rsa.for_decryption) <=> (rsa.symmetric # Unset)

\* ------------------------------------------------------------------------
\* C11 as stated: with restricted and for_decryption set, no symmetric
\* cipher and a signature-only scheme (RSASSA, RSAPSS), build() fails with
\* InconsistentParams.
\* ------------------------------------------------------------------------
C11_Original ==
    (/\ RsaBuilt /\ rsa.restricted /\ rsa.for_decryption /\ rsa.symmetric = Unset
     /\ rsa.scheme # Unset /\ RsaSchemeId \in SignatureOnly)
        => rsa_result = Err("InconsistentParams")

\* C11 amended: in that configuration build() fails with ParamsMissing, the
\* missing symmetric cipher being reported first; with a symmetric cipher set
\* the signature-only scheme fails with InconsistentParams.
C11_SignatureSchemeOnRestrictedDecryption ==
    (/\ RsaBuilt /\ rsa.restricted /\ rsa.for_decryption
     /\ rsa.scheme # Unset /\ RsaSchemeId \in SignatureOnly)
        => rsa_result = (IF rsa.symmetric = Unset THEN Err("ParamsMissing")
                         ELSE Err("InconsistentParams"))

\* the configuration of the claim with RSAPSS was built
C11_Witness ==
    /\ RsaBuilt /\ rsa.restricted /\ rsa.for_decryption /\ ~rsa.for_signing
    /\ rsa.symmetric = Unset
    /\ rsa.scheme = AsymScheme("RSAPSS", "SHA256")
    /\ rsa_result = Err("ParamsMissing")

\* ------------------------------------------------------------------------
\* C12 as stated: whenever no scheme is set build() fails with
\* ParamsMissing, for every combination of the flags and of symmetric-cipher
\* presence.
\* ------------------------------------------------------------------------
C12_Original ==
    (RsaBuilt /\ rsa.scheme = Unset) => rsa_result = Err("ParamsMissing")

\* C12 amended: whenever no scheme is set build() fails, with ParamsMissing
\* unless a symmetric cipher is set while restricted and for_decryption do
\* not both hold, where the earlier symmetric check gives
\* InconsistentParams; build() never succeeds without a scheme.
C12_SchemeMandatory ==
    (RsaBuilt /\ rsa.scheme = Unset) =>
        rsa_result = (IF ~(rsa.restricted /\ rsa.for_decryption) /\ rsa.symmetric # Unset
                      THEN Err("InconsistentParams")
                      ELSE Err("ParamsMissing"))

\* no scheme, symmetric rule satisfied, signing flag set
C12_Witness ==
    /\ RsaBuilt /\ rsa.scheme = Unset
    /\ ~rsa.restricted /\ rsa.for_signing /\ rsa.symmetric = Unset
    /\ rsa_result = Err("ParamsMissing")

\* ------------------------------------------------------------------------
\* C13 as stated: with restricted and for_signing set (for_decryption
\* either value, symmetric rule satisfied, scheme set) build() succeeds iff
\* the scheme is RSAPSS or RSASSA, and gives InconsistentParams otherwise.
\* ------------------------------------------------------------------------
C13_Original ==
    (/\ RsaBuilt /\ rsa.restricted /\ rsa.for_signing
     /\ SymmetricRuleOk /\ rsa.scheme # Unset)
        => /\ (rsa_result.tag = "Ok") <=> (RsaSchemeId \in SignatureOnly)
           /\ (rsa_result.tag # "Ok") => rsa_result = Err("InconsistentParams")

\* C13 amended: with restricted and for_signing set and for_decryption not
\* set, build() succeeds iff the scheme is RSAPSS or RSASSA; with
\* for_decryption set as well no scheme succeeds; every failure is
\* InconsistentParams.
C13_RestrictedSigning ==
    (/\ RsaBuilt /\ rsa.restricted /\ rsa.for_signing
     /\ SymmetricRuleOk /\ rsa.scheme # Unset)
        => /\ (rsa_result.tag = "Ok")
                <=> (~rsa.for_decryption /\ RsaSchemeId \in SignatureOnly)
           /\ (rsa_result.tag # "Ok") => rsa_result = Err("InconsistentParams")

\* a restricted signing key with RSASSA was built successfully
C13_Witness ==
    /\ RsaBuilt /\ rsa.restricted /\ rsa.for_signing /\ ~rsa.for_decryption
    /\ rsa.scheme = AsymScheme("RSASSA", "SHA1")
    /\ rsa_result.tag = "Ok"
    /\ rsa_result.value.scheme.scheme = "TPM2_ALG_RSASSA"

\* ------------------------------------------------------------------------
\* C14: with the symmetric rule satisfied and a scheme set, build() succeeds
\* exactly when the scheme matches the table (restricted decryption: null;
\* unrestricted signing and decryption: null; unrestricted signing: RSASSA,
\* RSAPSS or null; unrestricted decryption: RSAES, OAEP or null) and gives
\* InconsistentParams otherwise; new_restricted_decryption_key(..).build()
\* always succeeds with the null scheme and
\* new_unrestricted_signing_key(scheme, ..).build() succeeds iff scheme is
\* RSASSA, RSAPSS or null.
\* ------------------------------------------------------------------------
C14_TableAllowed ==
    CASE rsa.restricted /\ ~rsa.for_signing /\ rsa.for_decryption -> {"TPM2_ALG_NULL"}
      [] ~rsa.restricted /\ rsa.for_signing /\ rsa.for_decryption -> {"TPM2_ALG_NULL"}
      [] ~rsa.restricted /\ rsa.for_signing /\ ~rsa.for_decryption ->
            {"TPM2_ALG_RSASSA", "TPM2_ALG_RSAPSS", "TPM2_ALG_NULL"}
      [] ~rsa.restricted /\ ~rsa.for_signing /\ rsa.for_decryption ->
            {"TPM2_ALG_RSAES", "TPM2_ALG_OAEP", "TPM2_ALG_NULL"}
      [] OTHER -> {}

C14_InTable ==
    \/ (rsa.restricted /\ ~rsa.for_signing /\ rsa.for_decryption)
    \/ (~rsa.restricted /\ (rsa.for_signing \/ rsa.for_decryption))

C14_SchemeTable ==
    /\ (RsaBuilt /\ C14_InTable /\ SymmetricRuleOk /\ rsa.scheme # Unset)
          => /\ (rsa_result.tag = "Ok") <=> (RsaSchemeId \in C14_TableAllowed)
             /\ (rsa_result.tag # "Ok") => rsa_result = Err("InconsistentParams")
    /\ (RsaBuilt /\ \E sy \in SymDefObjects, k \in KeyBitsInputs, e \in ExponentInputs :
                       rsa = new_restricted_decryption_key(sy, k, e))
          => (rsa_result.tag = "Ok" /\ rsa_result.value.scheme.scheme = "TPM2_ALG_NULL")
    /\ \A sc \in AsymSchemes :
          (RsaBuilt /\ \E k \in KeyBitsInputs, e \in ExponentInputs :
                          rsa = new_unrestricted_signing_key(sc, k, e))
            => ((rsa_result.tag = "Ok")
                  <=> scheme_id(sc) \in {"TPM2_ALG_RSASSA", "TPM2_ALG_RSAPSS", "TPM2_ALG_NULL"})

\* an unrestricted decryption key with the null scheme was built successfully
C14_Witness ==
    /\ RsaBuilt /\ ~rsa.restricted /\ ~rsa.for_signing /\ rsa.for_decryption
    /\ rsa.symmetric = Unset
    /\ rsa.scheme # Unset /\ RsaSchemeId = "TPM2_ALG_NULL"
    /\ rsa_result.tag = "Ok"

\* ------------------------------------------------------------------------
\* C15: a flag combination outside the table, in particular for_signing and
\* for_decryption both unset (restricted or not), fails build() with
\* InconsistentParams whatever scheme is set.
\* ------------------------------------------------------------------------
C15_NoUseFlagsRejected ==
    (RsaBuilt /\ ~rsa.for_signing /\ ~rsa.for_decryption /\ rsa.scheme # Unset)
        => rsa_result = Err("InconsistentParams")

\* ------------------------------------------------------------------------
\* C16: every successful build() has a key width among the supported sizes
\* 1024, 2048, 3072, 4096.
\* ------------------------------------------------------------------------
C16_SupportedKeyBits ==
    (RsaBuilt /\ rsa_result.tag = "Ok") => rsa_result.value.keyBits \in RSA_KEY_SIZES

\* ------------------------------------------------------------------------
\* C17: a successful Tpm2BPublicBuilder.build() carries the kind (RSA), name
\* algorithm, object-attribute bits, authorization policy, RSA parameter
\* block and unique value given to the builder, and
\* PublicIdUnion::from_public of it is the RSA variant with that unique
\* value.
\* ------------------------------------------------------------------------
C17_PublicRoundTrip ==
    (pub_result # NoResult /\ pub_result.tag = "Ok") =>
        LET area   == pub_result.value.publicArea
            unique == IF pub.unique = Unset THEN RsaKeyDefault ELSE pub.unique.id
        IN  /\ area.type_ = "TPM2_ALG_RSA" /\ area.type_ = pub.type_
            /\ area.nameAlg = pub.name_alg
            /\ area.objectAttributes = pub.object_attributes
            /\ area.authPolicy = pub.auth_policy
            /\ pub.parameters.variant = "RsaDetail"
            /\ area.parameters.rsaDetail = pub.parameters.parms
            /\ area.unique.rsa = unique
            /\ from_public(pub_result.value) = Ok(PublicId("Rsa", unique))

\* a builder with every field set away from its default was built
C17_Witness ==
    /\ pub_result # NoResult /\ pub_result.tag = "Ok"
    /\ pub.name_alg = "TPM2_ALG_SHA256"
    /\ pub.object_attributes = new_fixed_signing_key
    /\ pub.auth_policy # DigestDefault
    /\ pub.unique # Unset /\ pub.unique.id # RsaKeyDefault
    /\ from_public(pub_result.value).value.id = pub.unique.id

\* the list to read was built by the caller
InitPcrRead ==
    /\ InitCtx /\ InitPub /\ InitRsa /\ InitSel
    /\ pcr_builder = PcrSelectionListBuilderNew
    /\ pcr_self \in PcrReadRequests
    /\ pcr_other = NoResult
    /\ pcr_last = NoResult
    /\ pcr_tpml = TpmlDefault
    /\ pcr_decoded = NoResult
    /\ pcr_read_ret = NoResult

NextPcrRead == \E rc \in {"Ok", "Err"} : PcrRead(rc)

SpecPcrRead == InitPcrRead /\ [][NextPcrRead]_vars

InitPcrSelections == InitCtx /\ InitPub /\ InitRsa /\ InitPcr /\ InitSel

NextPcrSelections ==
    \/ \E sz \in SelsSizes : SelsWithSizeOfSelect(sz)
    \/ \E alg \in HashingAlgorithms, sl \in SelsSlices : SelsWithSelection(alg, sl)
    \/ SelsBuild
    \/ SelsInto
    \/ SelsTryFrom

SpecPcrSelections == InitPcrSelections /\ [][NextPcrSelections]_vars

\* the wire list is whatever the device or the caller hands over
InitPcrSelectionsDecode ==
    /\ InitCtx /\ InitPub /\ InitRsa /\ InitPcr
    /\ sels_builder = PcrSelectionsBuilderNew
    /\ sels = NoResult
    /\ sels_tpml \in SelsTpmlInputs
    /\ sels_decoded = NoResult

NextPcrSelectionsDecode == SelsTryFrom

SpecPcrSelectionsDecode == InitPcrSelectionsDecode /\ [][NextPcrSelectionsDecode]_vars

\* a subtract call has returned
Subtracted == pcr_last # NoResult

\* ------------------------------------------------------------------------
\* C18: for every list A (empty, one bank, several banks), A.subtract(B)
\* with B structurally equal to A returns Ok and leaves A empty, whether or
\* not some bank of A has no slot.
\* ------------------------------------------------------------------------
C18_SubtractEqualEmpties ==
    (Subtracted /\ pcr_last.self = pcr_other)
        => (pcr_last.result = Ok("()") /\ is_empty(pcr_self) /\ len(pcr_self) = 0)

\* two equal lists of two banks, one of them without a slot, were subtracted
C18_Witness ==
    /\ Subtracted /\ pcr_last.self = pcr_other
    /\ len(pcr_other) = 2
    /\ \E sel \in pcr_other.items : PcrSelectionIsEmpty(sel)
    /\ \E sel \in pcr_other.items : ~PcrSelectionIsEmpty(sel)
    /\ pcr_last.result = Ok("()") /\ len(pcr_self) = 0

\* other, which is not self, has a hashing algorithm that is not a bank of
\* self, and self.subtract(other) has returned
AbsentAlgorithm ==
    /\ Subtracted /\ pcr_last.self # pcr_other
    /\ ~(Keys(pcr_other.items) \subseteq Keys(pcr_last.self.items))

\* a bank that other shares with self has another size_of_select there
SharedBankOfOtherWidth ==
    \E a \in pcr_last.self.items, b \in pcr_other.items :
        /\ a.hashing_algorithm = b.hashing_algorithm
        /\ a.size_of_select # b.size_of_select

C20_WidthMismatchPropagated ==
    /\ \A a, b \in {PcrSelectionTryFrom(t).value : t \in TpmsInputs} :
          (a.hashing_algorithm = b.hashing_algorithm /\ a.size_of_select # b.size_of_select)
            => PcrSelectionMerge(a, b) = Err("InconsistentParams")
    /\ (/\ pcr_decoded # NoResult
        /\ pcr_tpml.count <= MAX_SIZE
        /\ \E i, j \in 1..pcr_tpml.count :
              /\ i < j
              /\ pcr_tpml.pcrSelections[i].hash = pcr_tpml.pcrSelections[j].hash
              /\ pcr_tpml.pcrSelections[i].sizeofSelect # pcr_tpml.pcrSelections[j].sizeofSelect)
          => pcr_decoded = Err("InconsistentParams")

\* a list naming Sha256 with width 3 and then with width 1 was decoded
C20_Witness ==
    /\ pcr_tpml.count = 2
    /\ pcr_tpml.pcrSelections[1].hash = "Sha256"
    /\ pcr_tpml.pcrSelections[2].hash = "Sha256"
    /\ pcr_tpml.pcrSelections[1].sizeofSelect = 3
    /\ pcr_tpml.pcrSelections[2].sizeofSelect = 1
    /\ pcr_decoded = Err("InconsistentParams")

\* the slots the list builder b holds for alg, as a set
ListBuilderSlots(b, alg) ==
    UNION {SlotSet(it.slots) : it \in {x \in b.items : x.hash = alg}}

\* the slots the PcrSelectionsBuilder b holds for alg
SelsBuilderSlots(b, alg) ==
    UNION {it.slots : it \in {x \in b.items : x.hash = alg}}

\* ------------------------------------------------------------------------
\* C21: for two selections a, b of one algorithm and equal width,
\* merge(a, b) selects the slots merge(b, a) selects, their union, and
\* merge(a, a) is a; a builder given with_selection twice for one algorithm
\* holds the union of both slot sets whatever the order of the two calls,
\* and keeps what was inserted before.
\* ------------------------------------------------------------------------
C21_MergeIsUnion ==
    /\ \A a, b \in {PcrSelectionTryFrom(t).value : t \in TpmsInputs} :
          (a.hashing_algorithm = b.hashing_algorithm /\ a.size_of_select = b.size_of_select)
            => /\ PcrSelectionMerge(a, b) = PcrSelectionMerge(b, a)
               /\ PcrSelectionMerge(a, b).tag = "Ok"
               /\ PcrSelectionMerge(a, b).value.selected_pcrs
                     = a.selected_pcrs \cup b.selected_pcrs
               /\ PcrSelectionMerge(a, a) = Ok(a)
    /\ \A alg \in HashingAlgorithms, s1, s2 \in SelsSlices :
          LET b12 == PcrSelectionsBuilder_with_selection(
                        PcrSelectionsBuilder_with_selection(sels_builder, alg, s1), alg, s2)
              b21 == PcrSelectionsBuilder_with_selection(
                        PcrSelectionsBuilder_with_selection(sels_builder, alg, s2), alg, s1)
          IN  /\ PcrSelectionsBuilder_build(b12) = PcrSelectionsBuilder_build(b21)
              /\ SelsBuilderSlots(PcrSelectionsBuilder_build(b12), alg)
                    = SelsBuilderSlots(sels_builder, alg) \cup SlotSet(s1) \cup SlotSet(s2)
    /\ \A alg \in HashingAlgorithms, s1, s2, s0 \in PcrSlices :
          LET b0  == with_selection(PcrSelectionListBuilderNew, alg, s0)
              b12 == with_selection(with_selection(b0, alg, s1), alg, s2)
              b21 == with_selection(with_selection(b0, alg, s2), alg, s1)
          IN  /\ build(b12) = build(b21)
              /\ Get(build(b12).items, alg).selected_pcrs
                    = SlotSet(s0) \cup SlotSet(s1) \cup SlotSet(s2)

\* Sha256 was inserted twice, with slots 0 and 16 and with slot 23, and built
C21_Witness ==
    /\ sels # NoResult
    /\ SelsBuilderSlots(sels, "Sha256") = {0, 16, 23}
    /\ SelsBuilderSlots(sels_builder, "Sha256") = {0, 16, 23}

\* the lists PcrSelectionListBuilder builds from at most two insertions
C22_BuiltLists ==
    {build(b) : b \in
        {with_selection(with_selection(b0, a1, s1), a2, s2) :
            b0 \in {PcrSelectionListBuilderNew}
                     \cup {with_size_of_select(PcrSelectionListBuilderNew, sz)
                              : sz \in PcrSelectSizes},
            a1 \in HashingAlgorithms, a2 \in HashingAlgorithms,
            s1 \in PcrSlices, s2 \in PcrSlices}}

\* pcrSelect has bit (i mod 8) of octet i/8 set exactly for the slots i
C22_MaskOf(pcrSelect, slots) ==
    \A i \in 0..31 : MaskBit(pcrSelect, i) <=> (i \in slots)

\* ------------------------------------------------------------------------
\* C22: the wire form of a selection list has count equal to the number of
\* banks and, for each bank, the algorithm id, sizeofSelect equal to the
\* size_of_select of the list (3 when the builder was given none) and a mask
\* whose bit (i mod 8) of octet i/8 is set iff slot i is selected;
\* {Sha256: slot 0} gives 01 00 00 and {Sha256: slot 0, slot 16} 01 00 01.
\* ------------------------------------------------------------------------
C22_WireEncoding ==
    /\ (sels_tpml # NoResult) =>
          /\ sels_tpml.count = Cardinality(sels.items)
          /\ Len(sels_tpml.pcrSelections) = sels_tpml.count
          /\ \A it \in sels.items : \E k \in 1..sels_tpml.count :
                /\ sels_tpml.pcrSelections[k].hash = HashingAlgorithmInto(it.hash)
                /\ sels_tpml.pcrSelections[k].sizeofSelect = sels.size_of_select
                /\ C22_MaskOf(sels_tpml.pcrSelections[k].pcrSelect, it.slots)
          /\ (sels_builder.size_of_select = Unset)
                => \A k \in 1..sels_tpml.count : sels_tpml.pcrSelections[k].sizeofSelect = 3
          /\ (sels.items = {[hash |-> "Sha256", slots |-> {0}]})
                => SubSeq(sels_tpml.pcrSelections[1].pcrSelect, 1, 3) = <<1, 0, 0>>
          /\ (sels.items = {[hash |-> "Sha256", slots |-> {0, 16}]})
                => SubSeq(sels_tpml.pcrSelections[1].pcrSelect, 1, 3) = <<1, 0, 1>>
    /\ \A list \in C22_BuiltLists : \A order \in SelsOrders(list.items) :
          LET tpml == PcrSelectionListInto(list, order)
          IN  /\ tpml.count = len(list)
              /\ \A k \in 1..tpml.count :
                    /\ tpml.pcrSelections[k].hash = order[k].hashing_algorithm
                    /\ tpml.pcrSelections[k].sizeofSelect = order[k].size_of_select
                    /\ C22_MaskOf(tpml.pcrSelections[k].pcrSelect, order[k].selected_pcrs)
    /\ PcrSelectionListInto(
          build(with_selection(PcrSelectionListBuilderNew, "Sha256", <<0>>)),
          <<PcrSelectionNew("Sha256", 3, <<0>>)>>).pcrSelections[1]
         = [hash |-> "Sha256", sizeofSelect |-> 3, pcrSelect |-> <<1, 0, 0, 0>>]

\* {Sha256: slot 0, slot 16} built without a size and converted
C22_Witness ==
    /\ sels_tpml # NoResult
    /\ sels_builder.size_of_select = Unset
    /\ sels.items = {[hash |-> "Sha256", slots |-> {0, 16}]}
    /\ sels_tpml.count = 1
    /\ sels_tpml.pcrSelections[1].pcrSelect = <<1, 0, 1, 0>>

\* ------------------------------------------------------------------------
\* C23: decoding a wire list whose count is above 16 fails with
\* InvalidParam whatever its banks hold, and no count from 0 to 16 is
\* rejected for its size.
\* ------------------------------------------------------------------------
C23_BankCountLimit ==
    (pcr_decoded # NoResult) =>
        /\ (pcr_tpml.count > 16) => pcr_decoded = Err("InvalidParam")
        /\ (pcr_tpml.count <= 16) => pcr_decoded # Err("InvalidParam")

\* a list of 17 banks, two of them of one algorithm with different widths,
\* was decoded
C23_Witness ==
    /\ pcr_tpml.count = 17
    /\ pcr_tpml.pcrSelections[1].hash = pcr_tpml.pcrSelections[2].hash
    /\ pcr_tpml.pcrSelections[1].sizeofSelect # pcr_tpml.pcrSelections[2].sizeofSelect
    /\ pcr_decoded = Err("InvalidParam")

\* ------------------------------------------------------------------------
\* C24: decoding a wire list in which a bank's sizeofSelect differs from
\* that of an earlier bank, of the same algorithm or not, fails with
\* InconsistentParams, so that every decoded list has one size_of_select
\* for all its banks.
\* ------------------------------------------------------------------------
C24_WidthVariationRejected ==
    (pcr_decoded # NoResult /\ pcr_tpml.count <= MAX_SIZE) =>
        /\ (\E i, j \in 1..pcr_tpml.count :
               /\ i < j
               /\ pcr_tpml.pcrSelections[i].sizeofSelect
                     # pcr_tpml.pcrSelections[j].sizeofSelect)
              => pcr_decoded = Err("InconsistentParams")
        /\ (pcr_decoded.tag = "Ok") =>
              \A a, b \in pcr_decoded.value.items : a.size_of_select = b.size_of_select

\* the bank-wise difference of the items of two lists, without the named
\* banks it leaves empty
C26_Difference(self, other) ==
    {sel \in self.items : sel.hashing_algorithm \notin Keys(other.items)}
    \cup {sub \in {[sel EXCEPT !.selected_pcrs =
                        @ \ Get(other.items, sel.hashing_algorithm).selected_pcrs]
                     : sel \in {x \in self.items
                                   : x.hashing_algorithm \in Keys(other.items)}}
             : sub.selected_pcrs # {}}

\* ------------------------------------------------------------------------
\* C26: when every algorithm of other is a bank of self and every slot of
\* other is selected in self, a successful self.subtract(other) leaves the
\* bank-wise difference: banks other does not name are unchanged, a named
\* bank keeps its slots that are not in other, and a bank left without
\* slots is removed.
\* ------------------------------------------------------------------------
C26_SubtractIsDifference ==
    (/\ Subtracted /\ pcr_last.result = Ok("()")
     /\ Keys(pcr_other.items) \subseteq Keys(pcr_last.self.items)
     /\ \A o \in pcr_other.items :
           o.selected_pcrs
              \subseteq Get(pcr_last.self.items, o.hashing_algorithm).selected_pcrs)
        => pcr_self.items = C26_Difference(pcr_last.self, pcr_other)

\* of two banks one lost all its slots and went, the other kept one of two
C26_Witness ==
    /\ Subtracted /\ pcr_last.result = Ok("()")
    /\ pcr_last.self # pcr_other
    /\ len(pcr_last.self) = 2 /\ len(pcr_other) = 2 /\ len(pcr_self) = 1
    /\ \E sel \in pcr_self.items :
          /\ Cardinality(sel.selected_pcrs) = 1
          /\ Cardinality(Get(pcr_last.self.items, sel.hashing_algorithm).selected_pcrs) = 2

\* ------------------------------------------------------------------------
\* C27: when self.subtract(other) returns an error, self is what it was
\* before the call.
\* ------------------------------------------------------------------------
C27_SubtractErrorLeavesSelf ==
    (Subtracted /\ pcr_last.result.tag = "Err") => pcr_self = pcr_last.self

\* ------------------------------------------------------------------------
\* C28: decoding a wire bank of width sizeofSelect recovers every slot i
\* with 0 <= i < sizeofSelect * 8 whose bit is set, the highest one
\* included, so that decoding what a list was encoded to gives the list.
\* ------------------------------------------------------------------------
C28_DecodeRecoversAllSlots ==
    (sels_decoded # NoResult /\ sels_decoded.tag = "Ok") =>
        \A k \in 1..sels_tpml.count :
            \A i \in 0..(sels_tpml.pcrSelections[k].sizeofSelect * 8 - 1) :
                MaskBit(sels_tpml.pcrSelections[k].pcrSelect, i)
                  => i \in SelsBuilderSlots(
                              sels_decoded.value,
                              HashingAlgorithmTryFrom(sels_tpml.pcrSelections[k].hash).value)

\* ------------------------------------------------------------------------
\* C29: PcrSelections::try_from returns a value or an error for every wire
\* list and never faults.
\* ------------------------------------------------------------------------
C29_DecodeNeverFaults == sels_decoded # Panic

\* ------------------------------------------------------------------------
\* C25: when the request selects more slots than the device hands out in
\* one read, pcr_read returns successfully with a selection list unequal to
\* the requested one; a returned list that differs from the request is not
\* reported as an error.
\* ------------------------------------------------------------------------
C25_PartialReadIsSuccess ==
    (pcr_read_ret # NoResult /\ pcr_read_ret.rc = "Ok") =>
        /\ pcr_read_ret.result.tag = "Ok"
        /\ (SlotCount(pcr_self) > PcrReadLimit) => pcr_read_ret.result.value # pcr_self
        /\ (SlotCount(pcr_self) <= PcrReadLimit) => pcr_read_ret.result.value = pcr_self

\* 17 slots of Sha256 were requested and 16 came back
C25_Witness ==
    /\ pcr_read_ret # NoResult /\ pcr_read_ret.rc = "Ok"
    /\ pcr_self = build(with_selection(PcrSelectionListBuilderNew, "Sha256", LargeSlice))
    /\ pcr_read_ret.result.tag = "Ok"
    /\ SlotCount(pcr_read_ret.result.value) = 16

\* ------------------------------------------------------------------------
\* C30: execute_with_nullauth_session and execute_with_temporary_object
\* return what the work f returned, success or failure, whatever the
\* cleanup flush that follows it does.
\* ------------------------------------------------------------------------
C30_WorkResultReturned ==
    (ret.op \in {"nullauth", "tempobj"} /\ ret.fres # None) => ret.result = ret.fres

====
